---- MODULE Spec2Model ----
(***************************************************************************)
(* A model of the DevOps Sentinel pipeline: the in-memory message bus      *)
(* (shared/messaging.py), the monitoring agent (health_check.py), the      *)
(* triage agent (data_collector.py), the analysis agent (llm_analyzer.py)  *)
(* and the notification agent (delivery_service.py).                       *)
(*                                                                         *)
(* Time is an integer number of seconds.  Python's None is the value None; *)
(* a raised exception is the name of its class in a result record.         *)
(***************************************************************************)
EXTENDS Integers, Sequences, FiniteSets, TLC

VARIABLES
    now,                 \* the wall clock, TimestampUtils.now_utc(), in seconds
    ticks,               \* how many times the clock has advanced
    queues,              \* MessageQueue.queues: agent name -> list of messages
    delivered_messages,  \* MessageQueue.delivered_messages: message id -> message
    pending_responses,   \* MessageQueue.pending_responses: correlation id -> message
    sent_log,            \* history: per recipient, every message send_message appended
    recv_log,            \* history: per agent, every message receive_messages returned
    last_call,           \* history: the last bus call, its argument and what it returned
    consecutive_failures,\* HealthChecker.consecutive_failures, per endpoint
    active_incidents,    \* MonitoringAgent.active_incidents: endpoint name -> incident
    incidents,           \* every Incident object constructed so far, in creation order
    ssl_warnings,        \* MonitoringAgent.ssl_warnings: endpoint name -> time of the last warning
    mon_pc,              \* where _monitoring_cycle stands
    probed,              \* the endpoints whose _check_endpoint task has finished in this cycle
    probe_started,       \* the clock reading when the tasks of this cycle took their timestamp
    success_on_open,     \* history: the incidents that were open when a probe of this
                         \* cycle succeeded on their endpoint
    resolved_at,         \* history: incident -> the timestamp of the probe that resolved it
    notification_config, \* notification_config['delivery_channels']: the channel names in
                         \* the order of the file, and the settings of each
    recent_alerts,       \* AlertDeliveryService.recent_alerts: cooldown key -> time
    notif_log,           \* history: per notification request handled, what was done
    triage_log,          \* history: per triage request handled, the bundle collected
    historical_incidents,\* AnalysisAgent.historical_incidents
    pattern_actions,     \* LLMPatternMatcher.patterns[name]["actions"], the list objects
    analysis_log         \* history: per analysis run, its inputs and its result

clockVars == <<now, ticks>>
busVars == <<queues, delivered_messages, pending_responses>>
busHistory == <<sent_log, recv_log, last_call>>

monVars == <<consecutive_failures, active_incidents, incidents, ssl_warnings,
             mon_pc, probed, probe_started, success_on_open, resolved_at>>

notifVars == <<notification_config, recent_alerts, notif_log>>

\* the state of the agents that take requests
triageVars == <<triage_log>>

analysisVars == <<historical_incidents, pattern_actions, analysis_log>>

stageVars == <<notifVars, triageVars, analysisVars>>

vars == <<clockVars, busVars, busHistory, monVars, stageVars>>

(***************************************************************************)
(* Bounds of the model.                                                    *)
(***************************************************************************)
MaxTicks == 1
MaxSent == 3
MaxMonitorTicks == 1
MaxFailures == 3
MaxNotifications == 3
MaxNotificationTicks == 2
MaxTriaged == 2
MaxAnalyses == 2
MaxHistory == 5

MaxDispatched == 2
MaxSleeps == 3

\* selections of a primary hypothesis applied to one history
MaxSelections == 1

(***************************************************************************)
(* Values.                                                                 *)
(***************************************************************************)
None == "<None>"

Falsy(v) == v = None \/ v = ""

Agents == {"monitoring", "triage", "analysis", "notification"}

MessageType ==
    {"health_check_failure", "triage_request", "triage_response",
     "analysis_request", "analysis_response", "notification_request",
     "notification_sent", "incident_resolved"}

RangeOf(f) == {f[x] : x \in DOMAIN f}

Last(s) == s[Len(s)]

\* d.get(k, default)
Get(d, k, default) == IF k \in DOMAIN d THEN d[k] ELSE default

Put(f, k, v) == [x \in DOMAIN f \cup {k} |-> IF x = k THEN v ELSE f[x]]

(***************************************************************************)
(* The message bus.                                                        *)
(***************************************************************************)
Message(id, type, sender, recipient, timestamp, data, correlation_id, requires_response) ==
    [id |-> id, type |-> type, sender |-> sender, recipient |-> recipient,
     timestamp |-> timestamp, data |-> data, correlation_id |-> correlation_id,
     requires_response |-> requires_response]

\* "MSG_" and the clock reading: two ids made at one clock reading are equal
generate_message_id(t) == "MSG_" \o ToString(t)

Bus == [queues |-> queues, delivered_messages |-> delivered_messages,
        pending_responses |-> pending_responses]

QueueOf(qs, agent_name) == IF agent_name \in DOMAIN qs THEN qs[agent_name] ELSE <<>>

NoCall == [op |-> "none", arg |-> None, ret |-> None, msgs |-> <<>>]

register_handler(B, agent_name) ==
    [B EXCEPT !.queues = IF agent_name \in DOMAIN B.queues THEN B.queues
                         ELSE Put(B.queues, agent_name, <<>>)]

\* the bus after send_message(message); the call returns True
send_message(B, message) ==
    [queues |-> Put(B.queues, message.recipient,
                    Append(QueueOf(B.queues, message.recipient), message)),
     delivered_messages |-> Put(B.delivered_messages, message.id, message),
     pending_responses |-> IF message.requires_response
                           THEN Put(B.pending_responses, message.correlation_id, message)
                           ELSE B.pending_responses]

\* what receive_messages(agent_name) returns, and the bus after it
received_messages(B, agent_name) == QueueOf(B.queues, agent_name)

\* a receive_messages that returns the inbox and does not clear it
receive_messages_keeps_inbox(B, agent_name) == B

receive_messages(B, agent_name) ==
    IF agent_name \notin DOMAIN B.queues THEN B
    ELSE [B EXCEPT !.queues[agent_name] = <<>>]

\* the value handed to the MessageType constructor by send_response
response_type_value(original_message) == original_message.type \o "_response"

\* send_response(original_message, response_data) at clock reading t:
\* ret is the value returned, or the exception raised; bus is the bus after it
send_response(B, original_message, response_data, t) ==
    IF Falsy(original_message.correlation_id)
    THEN [ret |-> "False", bus |-> B]
    ELSE IF response_type_value(original_message) \notin MessageType
    THEN [ret |-> "ValueError", bus |-> B]
    ELSE [ret |-> "True",
          bus |-> send_message(B,
                     Message(generate_message_id(t),
                             response_type_value(original_message),
                             original_message.recipient, original_message.sender,
                             t, response_data, original_message.correlation_id, FALSE))]

(***************************************************************************)
(* AgentCommunication: the messages its send_* methods build.              *)
(***************************************************************************)
AgentCommunicationMethods ==
    {"send_triage_request", "send_analysis_request", "send_notification_request",
     "send_health_check_failure_alert", "process_messages"}

triage_request(agent_name, incident_id, endpoint_name, url, t) ==
    Message(generate_message_id(t), "triage_request", agent_name, "triage", t,
            [incident_id |-> incident_id, endpoint_name |-> endpoint_name, url |-> url],
            "triage_" \o incident_id, TRUE)

analysis_request(agent_name, incident_id, health_check, triage_data, t) ==
    Message(generate_message_id(t), "analysis_request", agent_name, "analysis", t,
            [incident_id |-> incident_id, health_check |-> health_check,
             triage_data |-> triage_data],
            "analysis_" \o incident_id, TRUE)

notification_request(agent_name, incident, t) ==
    Message(generate_message_id(t), "notification_request", agent_name, "notification", t,
            [incident |-> incident],
            "notification_" \o incident.id, TRUE)

health_check_failure_alert(agent_name, incident, t) ==
    Message(generate_message_id(t), "health_check_failure", agent_name, "monitoring", t,
            incident, None, FALSE)

\* a send_response that AgentCommunication would define and that returns
communication_send_response_defined(B, original_message, response_data, t) ==
    [ret |-> "True", bus |-> B]

\* self.communication.send_response(original_message, response_data) in an
\* agent: the attribute is looked up on AgentCommunication
communication_send_response(B, original_message, response_data, t) ==
    IF "send_response" \notin AgentCommunicationMethods
    THEN [ret |-> "AttributeError", bus |-> B]
    ELSE send_response(B, original_message, response_data, t)

Raises(r) == r.ret \in {"AttributeError", "ValueError"}

\* a handler's "send the response; on any exception send an error response":
\* the bus after it and the exception that leaves the handler, if any
respond_or_raise(B, original_message, response_data, error_data, t) ==
    LET first == communication_send_response(B, original_message, response_data, t)
        second == communication_send_response(first.bus, original_message,
                                              error_data, t) IN
    IF ~Raises(first) THEN [bus |-> first.bus, raised |-> None]
    ELSE IF ~Raises(second) THEN [bus |-> second.bus, raised |-> None]
    ELSE [bus |-> second.bus, raised |-> second.ret]

\* the messages appended to an agent's inbox between bus B0 and bus B1
Appended(B0, B1, a) ==
    SubSeq(QueueOf(B1.queues, a), Len(QueueOf(B0.queues, a)) + 1,
           Len(QueueOf(B1.queues, a)))

\* process_messages of an agent: drains the agent's inbox; no handler is called
process_messages(B, agent_name) == receive_messages(B, agent_name)


(***************************************************************************)
(* The monitoring agent.                                                   *)
(***************************************************************************)
Endpoints == {"svc-a", "svc-b"}

HttpsEndpoints == {"svc-a"}

EndpointUrl(e) == IF e \in HttpsEndpoints THEN "https://" \o e ELSE "http://" \o e

FailureThreshold == 2

SslWarningDays == 30

RetentionHours == 24

RetentionSeconds == RetentionHours * 3600

DaySeconds == 24 * 3600

\* what one probe is taken to observe: the request succeeds in time with an
\* expected status, answers 5xx or, for svc-a, raises a timeout
\* (HealthCheckResult also covers a 4xx answer and a slow answer)
ProbeOutcomes(e) ==
    IF e = "svc-a" THEN {"ok", "timeout", "http_5xx"} ELSE {"ok", "http_5xx"}

\* the HealthCheckResult check_health returns; t is the time check_health began
HealthCheckResult(e, outcome, t) ==
    [endpoint_name |-> e,
     url |-> EndpointUrl(e),
     status_code |-> CASE outcome = "ok" -> 200
                       [] outcome = "timeout" -> 0
                       [] outcome = "http_5xx" -> 503
                       [] outcome = "http_4xx" -> 404
                       [] outcome = "slow" -> 200,
     timestamp |-> t,
     success |-> outcome = "ok",
     error_message |-> CASE outcome = "ok" -> None
                         [] outcome = "timeout" -> "Connection timeout"
                         [] outcome = "http_5xx" -> "HTTP 503 error"
                         [] outcome = "http_4xx" -> "HTTP 404 error"
                         [] outcome = "slow" -> "Response time exceeds threshold"]

\* a check_health that counts the answers it gets, not the requests that raise
streak_after_counts_answers(streak, result) ==
    IF result.success THEN 0 ELSE IF result.status_code = 0 THEN streak ELSE streak + 1

\* check_health's update of the failure streak
streak_after(streak, result) == IF result.success THEN 0 ELSE streak + 1

should_trigger_incident(streak, failure_threshold) == streak >= failure_threshold

\* "timeout" in error_message.lower()
MentionsTimeout(error_message) == error_message \in {"Connection timeout"}

determine_alert_level(result) ==
    IF result.error_message # None /\ MentionsTimeout(result.error_message) THEN "high"
    ELSE IF result.status_code >= 500 THEN "critical"
    ELSE IF result.status_code >= 400 THEN "medium"
    ELSE "low"

\* IncidentIDGenerator.generate: "INC_" and the clock reading, to the second
IncidentID(t) == "INC_" \o ToString(t)

Incident(id, endpoint_name, status, alert_level, timestamp, last_updated, result) ==
    [id |-> id, endpoint_name |-> endpoint_name, status |-> status,
     alert_level |-> alert_level, timestamp |-> timestamp,
     last_updated |-> last_updated, health_check_result |-> result]

format_health_check_alert(incident) ==
    [type |-> "health_check_failure", incident_id |-> incident.id,
     endpoint_name |-> incident.endpoint_name, alert_level |-> incident.alert_level,
     timestamp |-> incident.timestamp, health_check |-> incident.health_check_result]

\* the monitor's incident store: the dict, and the objects it points to
Store == [active_incidents |-> active_incidents, incidents |-> incidents]

IncidentOf(S, e) == S.incidents[S.active_incidents[e]]

\* endpoint e has an entry in the store whose incident is not resolved
HasOpenIncident(S, e) ==
    e \in DOMAIN S.active_incidents /\ IncidentOf(S, e).status # "resolved"

NoSends(S) == [store |-> S, sends |-> <<>>]

\* the rest of _handle_endpoint_failure when the endpoint has no entry: the
\* new incident is stored, the failure alert and the triage request are sent
create_incident(S, result, t) ==
    LET incident == Incident(IncidentID(t), result.endpoint_name, "detected",
                             determine_alert_level(result), result.timestamp,
                             result.timestamp, result) IN
    [store |-> [active_incidents |-> Put(S.active_incidents, result.endpoint_name,
                                         Len(S.incidents) + 1),
                incidents |-> Append(S.incidents, incident)],
     sends |-> <<health_check_failure_alert("monitoring",
                        format_health_check_alert(incident), t),
                 triage_request("monitoring", incident.id, incident.endpoint_name,
                                incident.health_check_result.url, t)>>]

\* a _handle_endpoint_failure that opens an incident without looking for one
handle_endpoint_failure_always_opens(S, result, t) == create_incident(S, result, t)

\* a _handle_endpoint_failure that puts the incident it finds back to detected
handle_endpoint_failure_reopens(S, result, t) ==
    IF result.endpoint_name \in DOMAIN S.active_incidents
    THEN NoSends([S EXCEPT !.incidents[S.active_incidents[result.endpoint_name]] =
                              [@ EXCEPT !.last_updated = t, !.status = "detected"]])
    ELSE create_incident(S, result, t)

\* a _handle_endpoint_failure that also stores the new result in the incident
handle_endpoint_failure_stores_result(S, result, t) ==
    IF result.endpoint_name \in DOMAIN S.active_incidents
    THEN NoSends([S EXCEPT !.incidents[S.active_incidents[result.endpoint_name]] =
                              [@ EXCEPT !.last_updated = t, !.health_check_result = result]])
    ELSE create_incident(S, result, t)

\* _handle_endpoint_failure at clock reading t: the store after it, and the
\* messages it sends
handle_endpoint_failure(S, result, t) ==
    IF result.endpoint_name \in DOMAIN S.active_incidents
    THEN NoSends([S EXCEPT !.incidents[S.active_incidents[result.endpoint_name]].last_updated = t])
    ELSE create_incident(S, result, t)

\* a _check_incident_resolution that resolves every incident of the store
check_incident_resolution_of_all(S, result) ==
    [S EXCEPT !.incidents =
        [i \in 1..Len(S.incidents) |->
            IF \E name \in DOMAIN S.active_incidents : S.active_incidents[name] = i
            THEN [S.incidents[i] EXCEPT !.status = "resolved",
                                        !.last_updated = result.timestamp]
            ELSE S.incidents[i]]]

\* a _check_incident_resolution that only touches last_updated
check_incident_resolution_keeps_status(S, result) ==
    IF result.endpoint_name \in DOMAIN S.active_incidents
    THEN [S EXCEPT !.incidents[S.active_incidents[result.endpoint_name]].last_updated =
                       result.timestamp]
    ELSE S

check_incident_resolution(S, result) ==
    IF result.endpoint_name \in DOMAIN S.active_incidents
    THEN [S EXCEPT !.incidents[S.active_incidents[result.endpoint_name]] =
                       [@ EXCEPT !.status = "resolved", !.last_updated = result.timestamp]]
    ELSE S

\* _check_endpoint once check_health has returned result, with the streak
\* check_health left in the checker
check_endpoint(S, result, streak, t) ==
    IF ~result.success /\ should_trigger_incident(streak, FailureThreshold)
    THEN handle_endpoint_failure(S, result, t)
    ELSE IF result.success
    THEN NoSends(check_incident_resolution(S, result))
    ELSE NoSends(S)

\* _cleanup_resolved_incidents at clock reading t
cleanup_resolved_incidents(S, t) ==
    LET old == {name \in DOMAIN S.active_incidents :
                    /\ IncidentOf(S, name).status = "resolved"
                    /\ IncidentOf(S, name).last_updated < t - RetentionSeconds} IN
    [S EXCEPT !.active_incidents =
        [name \in (DOMAIN S.active_incidents) \ old |-> S.active_incidents[name]]]

\* what _check_ssl_expiry can return: None, or the days left
SslExpiry == {[known |-> FALSE, days |-> 0], [known |-> TRUE, days |-> 10],
              [known |-> TRUE, days |-> 45]}

\* a certificate check that warns on every cycle
check_ssl_warnings_every_cycle(warnings, expiry, t) ==
    LET due == {e \in HttpsEndpoints :
                  /\ expiry[e].known /\ expiry[e].days # 0
                  /\ expiry[e].days <= SslWarningDays} IN
    [e \in DOMAIN warnings \cup due |-> IF e \in due THEN t ELSE warnings[e]]

\* _check_ssl_warnings at clock reading t, expiry being what _check_ssl_expiry
\* returns for each https endpoint
check_ssl_warnings(warnings, expiry, t) ==
    LET due == {e \in HttpsEndpoints :
                  /\ expiry[e].known /\ expiry[e].days # 0
                  /\ expiry[e].days <= SslWarningDays
                  /\ (e \notin DOMAIN warnings \/ t - warnings[e] > DaySeconds)} IN
    [e \in DOMAIN warnings \cup due |-> IF e \in due THEN t ELSE warnings[e]]

RECURSIVE SendAll(_, _)
SendAll(B, ms) == IF ms = <<>> THEN B ELSE SendAll(send_message(B, Head(ms)), Tail(ms))

RECURSIVE LogAll(_, _)
LogAll(log, ms) ==
    IF ms = <<>> THEN log
    ELSE LogAll([log EXCEPT ![Head(ms).recipient] = Append(@, Head(ms))], Tail(ms))

MonitorInit ==
    /\ consecutive_failures = [e \in Endpoints |-> 0]
    /\ active_incidents = <<>>
    /\ incidents = <<>>
    /\ ssl_warnings = <<>>
    /\ mon_pc = "idle"
    /\ probed = {}
    /\ probe_started = 0
    /\ success_on_open = {}
    /\ resolved_at = <<>>

(***************************************************************************)
(* The notification agent.                                                 *)
(***************************************************************************)
CooldownMinutes == 15

CooldownSeconds == CooldownMinutes * 60

CooldownPruneHours == 1

CooldownPruneSeconds == CooldownPruneHours * 3600

\* a channel's settings in notification_config['delivery_channels']
Channel(enabled, min_alert_level) ==
    [enabled |-> enabled, min_alert_level |-> min_alert_level]

\* a notification_config['delivery_channels']: slack takes every level, email
\* is switched off, pagerduty takes critical
DefaultConfig ==
    [order |-> <<"slack", "email", "pagerduty">>,
     channels |-> [slack |-> Channel(TRUE, "low"), email |-> Channel(FALSE, "low"),
                   pagerduty |-> Channel(TRUE, "critical")]]

\* the configured channel names, in the order of the file
ConfiguredChannels == notification_config.order

ChannelConfig == notification_config.channels

\* self.cooldown_period: notification_config.get('cooldown_period', 15), minutes
cooldown_period ==
    IF "cooldown_period" \in DOMAIN notification_config
    THEN notification_config.cooldown_period
    ELSE CooldownMinutes

IsEnabled(channel) == ChannelConfig[channel].enabled

\* _initialize_delivery_services: the keys of delivery_services, in order
delivery_services ==
    SelectSeq(<<"slack", "email", "pagerduty", "teams">>,
              LAMBDA c : c \in RangeOf(ConfiguredChannels) /\ IsEnabled(c))

level_hierarchy == [low |-> 1, medium |-> 2, high |-> 3, critical |-> 4]

should_use_channel_strict(current_level, min_level) ==
    level_hierarchy[current_level] > level_hierarchy[min_level]

should_use_channel(current_level, min_level) ==
    LET current_value == IF current_level \in DOMAIN level_hierarchy
                         THEN level_hierarchy[current_level] ELSE 2
        min_value == IF min_level \in DOMAIN level_hierarchy
                     THEN level_hierarchy[min_level] ELSE 1 IN
    current_value >= min_value

cooldown_key_of_endpoint(incident) == incident.endpoint_name

cooldown_key(incident) == incident.endpoint_name \o ":" \o incident.alert_level

is_in_cooldown(recent, incident, t) ==
    /\ cooldown_key(incident) \in DOMAIN recent
    /\ t - recent[cooldown_key(incident)] < cooldown_period * 60

determine_delivery_channels_no_fallback(incident) ==
    SelectSeq(ConfiguredChannels,
              LAMBDA c : IsEnabled(c) /\ should_use_channel(incident.alert_level,
                                             ChannelConfig[c].min_alert_level))

determine_delivery_channels(incident) ==
    LET UseChannel(c) == IsEnabled(c) /\ should_use_channel(incident.alert_level,
                                            ChannelConfig[c].min_alert_level)
        channels == SelectSeq(ConfiguredChannels, UseChannel) IN
    IF channels = <<>> /\ delivery_services # <<>>
    THEN SubSeq(delivery_services, 1, 1)
    ELSE channels

DeliveryResult(channel, success, t) ==
    [channel |-> channel, success |-> success, timestamp |-> t]

\* _deliver_alerts: one _deliver_to_channel per channel that has a service;
\* ok is the set of channels whose send_alert succeeds
deliver_alerts(channels, ok, t) ==
    LET tasks == SelectSeq(channels, LAMBDA c : c \in RangeOf(delivery_services)) IN
    [i \in 1..Len(tasks) |-> DeliveryResult(tasks[i], tasks[i] \in ok, t)]

update_cooldown_tracking(recent, incident, t) ==
    LET set == Put(recent, cooldown_key(incident), t)
        old_keys == {key \in DOMAIN set : set[key] < t - CooldownPruneSeconds} IN
    [key \in (DOMAIN set) \ old_keys |-> set[key]]

CountWhere(results, success) ==
    Cardinality({i \in 1..Len(results) : results[i].success = success})

\* _process_notification_request at clock reading t: the cooldown map and the
\* bus after it, the delivery results, and the exception that leaves it
process_notification_request(recent, B, message, ok, t) ==
    LET incident == message.data.incident
        error_data == [status |-> "error", incident_id |-> incident.id]
        channels == determine_delivery_channels(incident)
        delivery_results == deliver_alerts(channels, ok, t)
        Done(recent_after, results, response_data) ==
            LET r == respond_or_raise(B, message, response_data, error_data, t) IN
            [recent_alerts |-> recent_after, bus |-> r.bus,
             delivery_results |-> results, raised |-> r.raised,
             channels |-> IF response_data.status = "skipped" THEN <<>> ELSE channels,
             response_data |-> response_data] IN
    IF is_in_cooldown(recent, incident, t)
    THEN Done(recent, <<>>, [status |-> "skipped", reason |-> "cooldown_period",
                             incident_id |-> incident.id])
    ELSE IF channels = <<>>
    THEN Done(recent, <<>>, [status |-> "failed", reason |-> "no_delivery_channels",
                             incident_id |-> incident.id])
    ELSE Done(update_cooldown_tracking(recent, incident, t), delivery_results,
              [status |-> "completed", incident_id |-> incident.id,
               successful_deliveries |-> CountWhere(delivery_results, TRUE),
               failed_deliveries |-> CountWhere(delivery_results, FALSE),
               delivery_results |-> delivery_results])

NotificationInit ==
    /\ notification_config = DefaultConfig
    /\ recent_alerts = <<>>
    /\ notif_log = <<>>

(***************************************************************************)
(* The triage agent.                                                       *)
(***************************************************************************)
EmptyDict == <<>>

\* the registered collectors, in the order of collection_tasks
Collectors == <<"logs", "network_diagnostics", "system_metrics">>

\* how one collector's coroutine would end: it returns its data, returns the
\* error marker of its except branch, raises, or is still running when the
\* deadline expires
CollectorOutcomes == {"ok", "error_marker", "raises", "slow"}

\* what a collector's coroutine returns: its data, or {"error": str(e), ...}
collector_result(outcome) ==
    IF outcome = "error_marker" THEN [error |-> "Exception"] ELSE [collected |-> TRUE]

Coroutine(name, outcome) == [kind |-> "coroutine", name |-> name, outcome |-> outcome]

\* collection_tasks: a list of (name, coroutine) tuples
collection_tasks(outcomes) ==
    [i \in 1..Len(Collectors) |->
        [kind |-> "tuple", name |-> Collectors[i],
         coroutine |-> Coroutine(Collectors[i], outcomes[Collectors[i]])]]

\* asyncio.wait_for(asyncio.gather(*aws, return_exceptions=True), timeout):
\* gather accepts awaitables only
gather_with_timeout(aws) ==
    IF \E i \in 1..Len(aws) : aws[i].kind # "coroutine"
    THEN [raised |-> "TypeError", results |-> <<>>]
    ELSE IF \E i \in 1..Len(aws) : aws[i].outcome = "slow"
    THEN [raised |-> "TimeoutError", results |-> <<>>]
    ELSE [raised |-> None,
          results |-> [i \in 1..Len(aws) |->
                          IF aws[i].outcome = "raises"
                          THEN [exception |-> TRUE]
                          ELSE [exception |-> FALSE,
                                value |-> collector_result(aws[i].outcome)]]]

\* the entry of data_collection made from one gathered result
collection_entry(result) ==
    IF result.exception THEN [status |-> "error", error |-> "Exception"]
    ELSE result.value

generate_triage_summary(data_collection) ==
    LET names == SelectSeq(Collectors, LAMBDA c : c \in DOMAIN data_collection)
        failed == SelectSeq(names, LAMBDA c :
                      Get(data_collection[c], "status", None) = "error")
        successful == SelectSeq(names, LAMBDA c :
                          Get(data_collection[c], "status", None) # "error") IN
    [data_sources_successful |-> successful,
     data_sources_failed |-> failed,
     key_findings |-> <<>>,
     recommendations |->
        (IF Len(failed) > 0
         THEN <<"Investigate failed data sources for access issues">> ELSE <<>>)
        \o <<"No obvious issues detected in collected data">>]

\* the loop over enumerate(collection_tasks): one entry per gathered result
data_collection_of(results) ==
    [c \in {Collectors[i] : i \in 1..Len(results)} |->
        collection_entry(results[CHOOSE i \in 1..Len(Collectors) : Collectors[i] = c])]

\* _collect_diagnostic_data at clock reading t
collect_diagnostic_data(incident_id, endpoint_name, endpoint_url, outcomes, t) ==
    LET tasks == collection_tasks(outcomes)
        gathered == gather_with_timeout(tasks)
        data_collection == data_collection_of(gathered.results) IN
    IF gathered.raised = "TimeoutError"
    THEN [incident_id |-> incident_id, status |-> "timeout",
          error |-> "Data collection timed out"]
    ELSE IF gathered.raised # None
    THEN [incident_id |-> incident_id, status |-> "error", error |-> gathered.raised]
    ELSE [incident_id |-> incident_id, endpoint_name |-> endpoint_name,
          endpoint_url |-> endpoint_url, collection_start_time |-> t,
          data_collection |-> data_collection, collection_end_time |-> t,
          summary |-> generate_triage_summary(data_collection)]

\* _trigger_analysis_workflow: the bus after it
trigger_analysis_workflow(B, incident_id, triage_data, t) ==
    send_message(B, analysis_request("triage", incident_id, EmptyDict, triage_data, t))

\* _process_triage_request at clock reading t: the bundle collected, the bus
\* after it and the exception that leaves it
process_triage_request(B, message, outcomes, t) ==
    LET data == message.data
        triage_data == collect_diagnostic_data(data.incident_id, data.endpoint_name,
                                               data.url, outcomes, t)
        first == communication_send_response(B, message,
                     [status |-> "completed", triage_data |-> triage_data], t)
        second == communication_send_response(first.bus, message,
                     [status |-> "error", error |-> first.ret], t) IN
    IF ~Raises(first)
    THEN [triage_data |-> triage_data, raised |-> None,
          bus |-> trigger_analysis_workflow(first.bus, data.incident_id, triage_data, t)]
    ELSE [triage_data |-> triage_data, bus |-> second.bus,
          raised |-> IF Raises(second) THEN second.ret ELSE None]

TriageInit == triage_log = <<>>

(***************************************************************************)
(* The analysis agent: pattern matching.                                   *)
(*                                                                         *)
(* A confidence or a similarity score is a double.  It is kept as an       *)
(* integer: ten times its value in hundredths, plus the number of units in *)
(* the last place by which the double the code computes differs from the   *)
(* double nearest to that decimal value.  0.3 is 300 and 3 * 0.1, which is *)
(* 0.30000000000000004, is 301; the order of the integers is the order of  *)
(* the doubles.                                                            *)
(***************************************************************************)
PatternNames ==
    <<"database_connection_error", "memory_leak", "network_connectivity",
      "ssl_certificate", "service_overload", "deployment_issue">>

\* _initialize_patterns, without the action lists
patterns ==
    [database_connection_error |->
        [keywords |-> <<"connection refused", "timeout", "connection pool",
                        "database", "sql">>,
         evidence_patterns |-> <<"connection.*refused", "database.*timeout",
                                 "connection.*pool.*exhausted", "sql.*error">>,
         confidence_boost |-> 30],
     memory_leak |->
        [keywords |-> <<"out of memory", "memory", "heap", "oom", "allocation">>,
         evidence_patterns |-> <<"out of memory", "memory.*usage.*high",
                                 "heap.*space", "allocation.*failed">>,
         confidence_boost |-> 25],
     network_connectivity |->
        [keywords |-> <<"network", "connection", "timeout", "unreachable", "dns">>,
         evidence_patterns |-> <<"network.*unreachable", "connection.*timeout",
                                 "dns.*resolution.*failed", "host.*unreachable">>,
         confidence_boost |-> 20],
     ssl_certificate |->
        [keywords |-> <<"ssl", "certificate", "tls", "handshake", "expired">>,
         evidence_patterns |-> <<"ssl.*certificate.*expired", "certificate.*error",
                                 "tls.*handshake.*failed", "certificate.*invalid">>,
         confidence_boost |-> 40],
     service_overload |->
        [keywords |-> <<"overload", "too many requests", "rate limit", "high cpu",
                        "high memory">>,
         evidence_patterns |-> <<"too many requests", "rate limit.*exceeded",
                                 "cpu.*usage.*high", "memory.*usage.*high">>,
         confidence_boost |-> 20],
     deployment_issue |->
        [keywords |-> <<"deployment", "release", "version", "rollback", "config">>,
         evidence_patterns |-> <<"deployment.*failed", "version.*mismatch",
                                 "configuration.*error", "rollback.*required">>,
         confidence_boost |-> 35]]

\* the "actions" lists of _initialize_patterns
InitialActions ==
    [database_connection_error |->
        <<"Check database server availability",
          "Verify connection string and credentials",
          "Check connection pool settings", "Monitor database server resources">>,
     memory_leak |->
        <<"Analyze memory usage patterns", "Check for memory leaks in application code",
          "Increase heap size if appropriate", "Monitor garbage collection metrics">>,
     network_connectivity |->
        <<"Verify network connectivity between services", "Check DNS resolution",
          "Verify firewall rules", "Test network latency and packet loss">>,
     ssl_certificate |->
        <<"Renew SSL certificate", "Verify certificate chain",
          "Check certificate installation", "Update certificate trust store">>,
     service_overload |->
        <<"Scale up service resources", "Implement rate limiting",
          "Optimize application performance", "Add load balancing">>,
     deployment_issue |->
        <<"Review recent deployment changes",
          "Consider rolling back to previous version",
          "Verify configuration files", "Check deployment logs">>]

\* str.lower() of the error messages check_health produces
Lower(text) ==
    CASE text = "Connection timeout" -> "connection timeout"
      [] text = "SSL certificate error" -> "ssl certificate error"
      [] text = "HTTP 503 error" -> "http 503 error"
      [] OTHER -> text

\* the keywords (keyword in text) and the evidence patterns (re.search) of
\* the catalogue that are found in one part of the combined text; no keyword
\* and no pattern is found across two of these parts
FoundIn(part) ==
    CASE part = "connection timeout" -> {"connection", "timeout", "connection.*timeout"}
      [] part = "ssl certificate error" -> {"ssl", "certificate", "certificate.*error"}
      [] part = "high memory_usage_percent: 90" -> {"memory", "high memory"}
      [] part = "high cpu_usage_percent: 90" -> {"high cpu"}
      [] OTHER -> {}

\* triage_data['data_collection'][source][key], with the defaults of .get
CollectedData(triage_data, source, key) ==
    Get(Get(Get(triage_data, "data_collection", EmptyDict), source, EmptyDict),
        key, EmptyDict)

MetricNames == <<"cpu_usage_percent", "memory_usage_percent">>

\* _extract_text_data: the parts of the combined text, lowered
extract_text_data(health_check, triage_data) ==
    LET error_message == Get(health_check, "error_message", None)
        sys_metrics == CollectedData(triage_data, "system_metrics", "system_metrics")
        high == SelectSeq(MetricNames,
                          LAMBDA m : m \in DOMAIN sys_metrics /\ sys_metrics[m] > 80) IN
    (IF Falsy(error_message) THEN <<>> ELSE <<Lower(error_message)>>)
    \o [i \in 1..Len(high) |->
           "high " \o high[i] \o ": " \o ToString(sys_metrics[high[i]])]

FoundInText(text) == UNION {FoundIn(text[i]) : i \in 1..Len(text)}

CountFound(candidates, text) ==
    Cardinality({i \in 1..Len(candidates) : candidates[i] \in FoundInText(text)})

calculate_context_boost(pattern_name, health_check, triage_data) ==
    LET data_collection == Get(triage_data, "data_collection", EmptyDict)
        sys_metrics == CollectedData(triage_data, "system_metrics", "system_metrics")
        net_tests == CollectedData(triage_data, "network_diagnostics", "tests")
        ssl_expiry_days == Get(health_check, "ssl_expiry_days", [known |-> FALSE, days |-> 0])
        cpu_usage == Get(sys_metrics, "cpu_usage_percent", 0)
        memory_usage == Get(sys_metrics, "memory_usage_percent", 0) IN
    CASE pattern_name = "database_connection_error" ->
            IF Get(data_collection, "database_diagnostics", EmptyDict) # EmptyDict
            THEN 20 ELSE 0
      [] pattern_name = "memory_leak" -> IF memory_usage > 80 THEN 30 ELSE 0
      [] pattern_name = "network_connectivity" ->
            IF \E name \in DOMAIN net_tests : net_tests[name].status \in {"failed", "timeout"}
            THEN 30 ELSE 0
      [] pattern_name = "ssl_certificate" ->
            IF ssl_expiry_days.known /\ ssl_expiry_days.days # 0 /\ ssl_expiry_days.days < 30
            THEN 40 ELSE 0
      [] pattern_name = "service_overload" ->
            IF cpu_usage > 80 \/ memory_usage > 80 THEN 30 ELSE 0
      [] OTHER -> 0

\* the sums of _calculate_pattern_confidence whose double is not the double
\* nearest to the decimal sum, as <<keyword matches, pattern matches, context
\* boost, confidence boost>>, by the number of units in the last place
RoundedDown ==
    {
        <<0, 1, 0, 35>>, <<0, 4, 30, 20>>, <<1, 1, 20, 30>>,
        <<1, 1, 30, 20>>, <<3, 1, 0, 30>>, <<3, 1, 30, 20>>,
        <<3, 1, 30, 25>>, <<4, 1, 30, 20>>, <<5, 0, 30, 20>>
    }

RoundedUp ==
    {
        <<0, 1, 0, 20>>, <<0, 1, 20, 30>>, <<0, 1, 30, 20>>, <<0, 2, 0, 40>>,
        <<0, 3, 0, 30>>, <<0, 3, 0, 40>>, <<0, 3, 30, 25>>, <<0, 4, 0, 20>>,
        <<0, 4, 20, 30>>, <<1, 0, 0, 40>>, <<1, 0, 20, 30>>,
        <<1, 0, 30, 20>>, <<1, 0, 40, 40>>, <<1, 1, 0, 25>>, <<1, 1, 0, 40>>,
        <<1, 1, 40, 40>>, <<1, 2, 0, 20>>, <<1, 2, 0, 30>>, <<1, 2, 30, 25>>,
        <<1, 3, 0, 20>>, <<1, 3, 0, 25>>, <<1, 3, 20, 30>>, <<1, 3, 30, 20>>,
        <<1, 4, 0, 35>>, <<1, 4, 0, 40>>, <<2, 0, 0, 20>>, <<2, 0, 0, 25>>,
        <<2, 0, 40, 40>>, <<2, 2, 0, 25>>, <<2, 2, 20, 30>>,
        <<2, 2, 30, 20>>, <<2, 3, 0, 20>>, <<2, 3, 0, 25>>, <<2, 3, 0, 40>>,
        <<2, 4, 0, 30>>, <<2, 4, 0, 40>>, <<3, 1, 20, 30>>, <<3, 2, 0, 40>>,
        <<3, 3, 0, 30>>, <<3, 3, 0, 40>>, <<3, 4, 0, 20>>, <<4, 0, 0, 25>>,
        <<4, 0, 0, 30>>, <<4, 0, 0, 40>>, <<4, 0, 20, 30>>, <<4, 0, 30, 20>>,
        <<4, 0, 30, 25>>, <<4, 1, 0, 20>>, <<4, 1, 0, 40>>, <<4, 1, 20, 30>>,
        <<4, 2, 0, 30>>, <<4, 3, 0, 20>>, <<4, 3, 0, 25>>, <<4, 3, 0, 30>>,
        <<4, 3, 0, 35>>, <<4, 4, 0, 20>>, <<4, 4, 0, 25>>, <<5, 0, 0, 20>>,
        <<5, 0, 20, 30>>, <<5, 2, 0, 25>>, <<5, 2, 0, 30>>, <<5, 2, 0, 35>>,
        <<5, 3, 0, 20>>, <<5, 3, 0, 25>>
    }

RoundedUpTwice ==
    {
        <<2, 3, 20, 30>>
    }

RoundingError(sum) ==
    IF sum \in RoundedDown THEN -1
    ELSE IF sum \in RoundedUp THEN 1
    ELSE IF sum \in RoundedUpTwice THEN 2
    ELSE 0

\* a score that is not capped at 1.0
calculate_pattern_confidence_uncapped(pattern_name, text, health_check, triage_data) ==
    LET pattern_config == patterns[pattern_name] IN
    10 * ((CountFound(pattern_config.keywords, text) * 40) \div Len(pattern_config.keywords)
          + (CountFound(pattern_config.evidence_patterns, text) * 40)
                \div Len(pattern_config.evidence_patterns)
          + calculate_context_boost(pattern_name, health_check, triage_data)
          + pattern_config.confidence_boost)

\* _calculate_pattern_confidence: keyword share * 0.4 + pattern share * 0.4 +
\* context boost + confidence boost, capped at 1.0
calculate_pattern_confidence(pattern_name, text, health_check, triage_data) ==
    LET pattern_config == patterns[pattern_name]
        keyword_matches == CountFound(pattern_config.keywords, text)
        pattern_matches == CountFound(pattern_config.evidence_patterns, text)
        context_boost == calculate_context_boost(pattern_name, health_check, triage_data)
        hundredths == (keyword_matches * 40) \div Len(pattern_config.keywords)
                      + (pattern_matches * 40) \div Len(pattern_config.evidence_patterns)
                      + context_boost + pattern_config.confidence_boost
        capped == IF hundredths > 100 THEN 100 ELSE hundredths IN
    10 * capped + RoundingError(<<keyword_matches, pattern_matches, context_boost,
                                  pattern_config.confidence_boost>>)

AnalysisHypothesis(id, confidence, recommended_actions, actions_of) ==
    [id |-> id, confidence |-> confidence, recommended_actions |-> recommended_actions,
     actions_of |-> actions_of]

\* a sort that leaves the list as it is
sort_by_confidence_keeps_order(hypotheses) == hypotheses

\* a descending sort that puts the later of two equal hypotheses first
sort_by_confidence_later_first(hypotheses) ==
    LET Sorted(hs) ==
            LET Rank(i) == Cardinality({j \in 1..Len(hs) :
                               \/ hs[j].confidence > hs[i].confidence
                               \/ hs[j].confidence = hs[i].confidence /\ j > i}) + 1 IN
            [k \in 1..Len(hs) |-> hs[CHOOSE i \in 1..Len(hs) : Rank(i) = k]] IN
    CHOOSE sorted \in {Sorted(hs) : hs \in {hypotheses}} : TRUE

\* list.sort(key=confidence, reverse=True): descending and stable, so a
\* hypothesis comes after those of greater confidence and after the earlier
\* ones of equal confidence
sort_by_confidence(hypotheses) ==
    LET Sorted(hs) ==
            LET Rank(i) == Cardinality({j \in 1..Len(hs) :
                               \/ hs[j].confidence > hs[i].confidence
                               \/ hs[j].confidence = hs[i].confidence /\ j < i}) + 1 IN
            [k \in 1..Len(hs) |-> hs[CHOOSE i \in 1..Len(hs) : Rank(i) = k]] IN
    CHOOSE sorted \in {Sorted(hs) : hs \in {hypotheses}} : TRUE

\* match_patterns; actions are the catalogue's action lists at this call
match_patterns(actions, health_check, triage_data) ==
    LET text == extract_text_data(health_check, triage_data)
        confidence(name) == calculate_pattern_confidence(name, text, health_check,
                                                         triage_data)
        matched == SelectSeq(PatternNames, LAMBDA name : confidence(name) > 100) IN
    sort_by_confidence([i \in 1..Len(matched) |->
        AnalysisHypothesis("pattern_" \o matched[i], confidence(matched[i]),
                           actions[matched[i]], matched[i])])

(***************************************************************************)
(* The analysis agent: correlation with the history, and the analysis.     *)
(***************************************************************************)
HistoryCapacity == 100

MaxSimilar == 5

\* set(text.split()) of the lowered error messages
Words(text) ==
    CASE text = "connection timeout" -> {"connection", "timeout"}
      [] text = "ssl certificate error" -> {"ssl", "certificate", "error"}
      [] text = "http 503 error" -> {"http", "503", "error"}
      [] OTHER -> {}

\* the similarity sums whose double is not the double nearest to the decimal
\* sum, as <<endpoint share, common words, recency share>>
SimilarityRoundedUp == {<<0, 1, 20>>, <<0, 2, 10>>, <<0, 3, 0>>}

SimilarityRoundedDown == {<<50, 2, 10>>, <<50, 2, 20>>}

\* the similarity of one historical incident to the current one at clock
\* reading t: 0.5 for the endpoint, 0.1 a common word, 0.2 or 0.1 for recency
similarity_score(current_endpoint, current_error, incident, t) ==
    LET hist_error == Lower(Get(Get(incident, "health_check", EmptyDict),
                                "error_message", ""))
        endpoint_share == IF Get(incident, "endpoint_name", "") = current_endpoint
                          THEN 50 ELSE 0
        common_words == Cardinality(Words(current_error) \cap Words(hist_error))
        days_diff == (t - incident.timestamp) \div DaySeconds
        recency_share == IF days_diff < 7 THEN 20 ELSE IF days_diff < 30 THEN 10 ELSE 0
        sum == <<endpoint_share, common_words, recency_share>> IN
    10 * (endpoint_share + 10 * common_words + recency_share)
    + (IF sum \in SimilarityRoundedUp THEN 1
       ELSE IF sum \in SimilarityRoundedDown THEN -1 ELSE 0)

\* list.sort(key=similarity_score, reverse=True): descending and stable
sort_by_similarity(similar) ==
    LET Sorted(xs) ==
            LET Rank(i) == Cardinality({j \in 1..Len(xs) :
                               \/ xs[j].similarity_score > xs[i].similarity_score
                               \/ xs[j].similarity_score = xs[i].similarity_score /\ j < i}) + 1 IN
            [k \in 1..Len(xs) |-> xs[CHOOSE i \in 1..Len(xs) : Rank(i) = k]] IN
    CHOOSE sorted \in {Sorted(xs) : xs \in {similar}} : TRUE

find_similar_incidents(incident_data, history, t) ==
    LET current_endpoint == Get(incident_data, "endpoint_name", "")
        current_error == Lower(Get(Get(incident_data, "health_check", EmptyDict),
                                   "error_message", ""))
        scored == [i \in 1..Len(history) |->
                      [incident |-> history[i],
                       similarity_score |-> similarity_score(current_endpoint,
                                                current_error, history[i], t)]]
        similar == sort_by_similarity(SelectSeq(scored,
                                                LAMBDA x : x.similarity_score > 300)) IN
    SubSeq(similar, 1, IF Len(similar) < MaxSimilar THEN Len(similar) ELSE MaxSimilar)

\* the hour of the day of a timestamp
HourOf(timestamp) == (timestamp % DaySeconds) \div 3600

RECURSIVE SumOfHours(_)
SumOfHours(similar) ==
    IF similar = <<>> THEN 0
    ELSE HourOf(Head(similar).incident.timestamp) + SumOfHours(Tail(similar))

\* the stored snapshots carry no resolution, so only the hours give a pattern
analyze_historical_patterns(similar) ==
    IF Len(similar) < 2 THEN <<>>
    ELSE IF 9 * Len(similar) <= SumOfHours(similar)
            /\ SumOfHours(similar) <= 17 * Len(similar)
    THEN <<"Incidents tend to occur during business hours">>
    ELSE <<"Incidents tend to occur outside business hours">>

\* the stored snapshots carry no resolution and no resolution time
generate_historical_recommendations(similar) ==
    IF Len(similar) >= 3
    THEN <<"This type of incident occurs frequently - consider permanent fix">>
    ELSE <<>>

\* analyze_correlations at clock reading t; a None error message makes
\* .lower() raise, which the method turns into an error record
analyze_correlations(incident_data, history, t) ==
    LET NoneMessage(d) == Get(Get(d, "health_check", EmptyDict), "error_message", "") = None
        similar == find_similar_incidents(incident_data, history, t) IN
    IF history = <<>>
    THEN [similar_incidents |-> <<>>, patterns_found |-> <<>>, recommendations |-> <<>>]
    ELSE IF NoneMessage(incident_data) \/ \E i \in 1..Len(history) : NoneMessage(history[i])
    THEN [error |-> "AttributeError"]
    ELSE [similar_incidents |-> similar,
          patterns_found |-> analyze_historical_patterns(similar),
          recommendations |-> generate_historical_recommendations(similar)]

\* a hypothesis made for any similar incident at all
generate_correlation_hypotheses_from_one(correlations) ==
    LET count == Len(Get(correlations, "similar_incidents", <<>>)) IN
    IF count >= 1
    THEN <<AnalysisHypothesis("correlation_frequent_incident",
               IF count >= 7 THEN 700
               ELSE 100 * count + (IF count \in {3, 6} THEN 1 ELSE 0),
               <<"Investigate root cause of recurring incidents",
                 "Implement preventive measures",
                 "Consider system architecture review">>, None)>>
    ELSE <<>>

\* _generate_correlation_hypotheses: min(count * 0.1, 0.7) for two or more
generate_correlation_hypotheses(correlations) ==
    LET count == Len(Get(correlations, "similar_incidents", <<>>)) IN
    IF count >= 2
    THEN <<AnalysisHypothesis("correlation_frequent_incident",
               IF count >= 7 THEN 700
               ELSE 100 * count + (IF count \in {3, 6} THEN 1 ELSE 0),
               <<"Investigate root cause of recurring incidents",
                 "Implement preventive measures",
                 "Consider system architecture review">>, None)>>
    ELSE <<>>

NoHypothesis == [id |-> None]

\* a bucketing whose bounds are exclusive
confidence_level_of_exclusive(confidence) ==
    IF confidence > 800 THEN "high" ELSE IF confidence > 500 THEN "medium" ELSE "low"

\* the confidence level of a primary confidence
confidence_level_of(confidence) ==
    IF confidence >= 800 THEN "high" ELSE IF confidence >= 500 THEN "medium" ELSE "low"

ManualInvestigation ==
    "Insufficient data to determine root cause. Manual investigation required."

\* a summary that names no manual investigation
generate_analysis_summary_silent(primary_hypothesis) ==
    IF primary_hypothesis # NoHypothesis
    THEN "Primary hypothesis: " \o primary_hypothesis.id
    ELSE ""

\* _generate_analysis_summary, on the primary hypothesis of the result
generate_analysis_summary(primary_hypothesis) ==
    IF primary_hypothesis # NoHypothesis
    THEN "Primary hypothesis: " \o primary_hypothesis.id
    ELSE ManualInvestigation

\* Steps 3 and 4 of _perform_root_cause_analysis, on the hypotheses of step 1
\* and the correlations of step 2
rank_and_select(history, actions, incident_id, t, pattern_hypotheses, correlations) ==
    LET pooled == pattern_hypotheses
                  \o (IF history # <<>> THEN generate_correlation_hypotheses(correlations)
                      ELSE <<>>)
        hypotheses == sort_by_confidence(pooled)
        primary == hypotheses[1]
        extension == Get(correlations, "recommendations", <<>>)
        recommendations == primary.recommended_actions \o extension
        Extended(h) == [h EXCEPT !.recommended_actions = recommendations]
        summary == generate_analysis_summary(IF pooled # <<>> THEN primary
                                             ELSE NoHypothesis)
        Result(hs, p, level, recs) ==
            [incident_id |-> incident_id, analysis_start_time |-> t,
             hypotheses |-> hs, primary_hypothesis |-> p, confidence_level |-> level,
             correlations |-> IF history # <<>> THEN correlations ELSE EmptyDict,
             recommendations |-> recs, analysis_summary |-> summary,
             analysis_end_time |-> t] IN
    IF pooled = <<>>
    THEN [result |-> Result(<<>>, NoHypothesis, "low", <<>>), actions |-> actions]
    ELSE IF history = <<>>
    THEN \* correlations is read before it was ever assigned
         [result |-> [incident_id |-> incident_id, status |-> "error",
                      error |-> "UnboundLocalError"],
          actions |-> actions]
    ELSE [result |-> Result(<<Extended(primary)>> \o Tail(hypotheses),
                            [id |-> primary.id, confidence |-> primary.confidence,
                             recommended_actions |-> recommendations],
                            confidence_level_of(primary.confidence), recommendations),
          actions |-> IF primary.actions_of = None THEN actions
                      ELSE [actions EXCEPT ![primary.actions_of] = recommendations]]

\* _perform_root_cause_analysis at clock reading t, on the agent's history and
\* the catalogue's action lists: the result, and the action lists after it
perform_root_cause_analysis(history, actions, incident_id, health_check, triage_data, t) ==
    CHOOSE analysis \in
        {rank_and_select(history, actions, incident_id, t, pattern_hypotheses, correlations) :
            pattern_hypotheses \in {match_patterns(actions, health_check, triage_data)},
            correlations \in
                {analyze_correlations(
                     [endpoint_name |-> Get(health_check, "endpoint_name", None),
                      health_check |-> health_check], history, t)}} : TRUE

store_incident_for_history(history, incident_id, health_check, triage_data,
                           analysis_result, t) ==
    LET incident == [incident_id |-> incident_id, timestamp |-> t,
                     endpoint_name |-> Get(health_check, "endpoint_name", None),
                     health_check |-> health_check,
                     triage_summary |-> Get(triage_data, "summary", EmptyDict),
                     primary_hypothesis |-> Get(analysis_result, "primary_hypothesis",
                                                NoHypothesis),
                     confidence_level |-> Get(analysis_result, "confidence_level", None),
                     recommendations |-> Get(analysis_result, "recommendations", <<>>)]
        appended == Append(history, incident) IN
    IF Len(appended) > HistoryCapacity
    THEN SubSeq(appended, Len(appended) - HistoryCapacity + 1, Len(appended))
    ELSE appended

\* _determine_alert_level of the analysis agent
alert_level_of_analysis(analysis_result) ==
    LET confidence == Get(analysis_result, "confidence_level", "low") IN
    IF confidence = "high" THEN "critical"
    ELSE IF confidence = "medium" THEN "high"
    ELSE "medium"

\* _trigger_notification_workflow's incident_data, as far as the
\* notification agent reads it
incident_data(id, endpoint_name, alert_level) ==
    [id |-> id, endpoint_name |-> endpoint_name, status |-> "analyzed",
     alert_level |-> alert_level]

\* _trigger_notification_workflow: the bus after it
trigger_notification_workflow(B, incident_id, health_check, analysis_result, t) ==
    send_message(B, notification_request("analysis",
        incident_data(incident_id, Get(health_check, "endpoint_name", None),
                      alert_level_of_analysis(analysis_result)), t))

\* _process_analysis_request after the analysis: the response, the history
\* and the notification request
respond_store_and_notify(history, B, message, analysis, t) ==
    LET data == message.data
        first == communication_send_response(B, message,
                     [status |-> "completed", analysis_result |-> analysis.result], t)
        second == communication_send_response(first.bus, message,
                     [status |-> "error", error |-> first.ret], t) IN
    IF ~Raises(first)
    THEN [analysis_result |-> analysis.result, actions |-> analysis.actions,
          history |-> store_incident_for_history(history, data.incident_id,
                          data.health_check, data.triage_data, analysis.result, t),
          bus |-> trigger_notification_workflow(first.bus, data.incident_id,
                          data.health_check, analysis.result, t),
          raised |-> None]
    ELSE [analysis_result |-> analysis.result, actions |-> analysis.actions,
          history |-> history, bus |-> second.bus,
          raised |-> IF Raises(second) THEN second.ret ELSE None]

\* _process_analysis_request at clock reading t
process_analysis_request(history, actions, B, message, t) ==
    CHOOSE handled \in
        {respond_store_and_notify(history, B, message, analysis, t) :
            analysis \in {perform_root_cause_analysis(history, actions,
                              message.data.incident_id, message.data.health_check,
                              message.data.triage_data, t)}} : TRUE

AnalysisInit ==
    /\ historical_incidents = <<>>
    /\ pattern_actions = InitialActions
    /\ analysis_log = <<>>

(***************************************************************************)
(* The state after construction.                                           *)
(***************************************************************************)
ClockInit == now = 0 /\ ticks = 0

BusInit ==
    /\ queues = <<>>
    /\ delivered_messages = <<>>
    /\ pending_responses = <<>>
    /\ sent_log = [a \in Agents |-> <<>>]
    /\ recv_log = [a \in Agents |-> <<>>]
    /\ last_call = NoCall

Init == ClockInit /\ BusInit /\ MonitorInit /\ NotificationInit /\ TriageInit
        /\ AnalysisInit

SetBus(B) ==
    /\ queues' = B.queues
    /\ delivered_messages' = B.delivered_messages
    /\ pending_responses' = B.pending_responses

Tick(d, max) ==
    /\ ticks < max
    /\ now' = now + d
    /\ ticks' = ticks + 1

(***************************************************************************)
(* The bus on its own: callers send, receive and respond in any order.     *)
(***************************************************************************)
TotalSent == Len(sent_log["monitoring"]) + Len(sent_log["triage"])
             + Len(sent_log["analysis"]) + Len(sent_log["notification"])

\* the messages a caller may hand to send_message: the four requests of
\* AgentCommunication, and two hand-built messages as in _test_message_passing
BusMessages(t) ==
    {triage_request("monitoring", "INC_1", "svc-a", "https://svc-a", t),
     analysis_request("triage", "INC_1", [endpoint_name |-> "svc-a"],
                      [incident_id |-> "INC_1"], t),
     notification_request("analysis", [id |-> "INC_1"], t),
     health_check_failure_alert("monitoring", [incident_id |-> "INC_1"], t),
     Message("test_msg_001", "triage_request", "monitoring", "triage", t,
             [incident_id |-> "INC_TEST_001"], "test_correlation_001", FALSE),
     Message("test_msg_002", "analysis_request", "triage", "analysis", t,
             [incident_id |-> "INC_TEST_001"], None, TRUE)}

BusSend(m) ==
    /\ TotalSent < MaxSent
    /\ SetBus(send_message(Bus, m))
    /\ sent_log' = [sent_log EXCEPT ![m.recipient] = Append(@, m)]
    /\ last_call' = [op |-> "send_message", arg |-> m, ret |-> "True", msgs |-> <<>>]
    /\ UNCHANGED <<clockVars, recv_log, monVars, stageVars>>

BusReceive(a) ==
    /\ SetBus(receive_messages(Bus, a))
    /\ recv_log' = [recv_log EXCEPT ![a] = @ \o received_messages(Bus, a)]
    /\ last_call' = [op |-> "receive_messages", arg |-> a, ret |-> None,
                     msgs |-> received_messages(Bus, a)]
    /\ UNCHANGED <<clockVars, sent_log, monVars, stageVars>>

BusRespond(m) ==
    LET r == send_response(Bus, m, [status |-> "completed"], now) IN
    /\ TotalSent < MaxSent
    /\ SetBus(r.bus)
    /\ sent_log' = IF r.ret = "True"
                   THEN [sent_log EXCEPT ![m.sender] = Append(@, Last(r.bus.queues[m.sender]))]
                   ELSE sent_log
    /\ last_call' = [op |-> "send_response", arg |-> m, ret |-> r.ret, msgs |-> <<>>]
    /\ UNCHANGED <<clockVars, recv_log, monVars, stageVars>>

BusTick == Tick(1, MaxTicks) /\ UNCHANGED <<busVars, busHistory, monVars, stageVars>>

NextBus ==
    \/ \E m \in BusMessages(now) : BusSend(m)
    \/ \E a \in Agents : BusReceive(a)
    \/ \E a \in Agents : \E i \in 1..Len(recv_log[a]) : BusRespond(recv_log[a][i])
    \/ BusTick

SpecBus == Init /\ [][NextBus]_vars

RequestTypes == {"triage_request", "analysis_request", "notification_request"}

\* C9: receive_messages(R) returns exactly the messages sent to R since the
\* previous receive_messages(R), in the order sent, and leaves R's inbox empty:
\* what was returned so far, followed by the inbox, is what was sent to R, and
\* right after a receive everything sent to R has been returned once.
C9_ReceiveDrainsInOrder ==
    /\ \A a \in Agents : recv_log[a] \o QueueOf(queues, a) = sent_log[a]
    /\ last_call.op = "receive_messages" =>
          /\ QueueOf(queues, last_call.arg) = <<>>
          /\ recv_log[last_call.arg] = sent_log[last_call.arg]
          /\ Len(last_call.msgs) <= Len(recv_log[last_call.arg])
          /\ last_call.msgs =
                SubSeq(sent_log[last_call.arg],
                       Len(sent_log[last_call.arg]) - Len(last_call.msgs) + 1,
                       Len(sent_log[last_call.arg]))

\* a second receive of an agent has returned two messages sent after its first
C9_Witness ==
    /\ last_call.op = "receive_messages"
    /\ Len(last_call.msgs) = 2
    /\ Len(recv_log[last_call.arg]) = 3
    /\ last_call.msgs[1] # last_call.msgs[2]

\* C10: responding to a triage, analysis or notification request that requires
\* a response and carries a correlation id returns True and puts one response
\* in the original sender's inbox, with the same correlation id and with
\* sender and recipient swapped.
C10_RespondReachesSender ==
    (/\ last_call.op = "send_response"
     /\ last_call.arg.type \in RequestTypes
     /\ last_call.arg.requires_response
     /\ ~Falsy(last_call.arg.correlation_id))
    => /\ last_call.ret = "True"
       /\ QueueOf(queues, last_call.arg.sender) # <<>>
       /\ LET r == Last(QueueOf(queues, last_call.arg.sender)) IN
            /\ r.correlation_id = last_call.arg.correlation_id
            /\ r.sender = last_call.arg.recipient
            /\ r.recipient = last_call.arg.sender

\* C11: a send_response on an original message that does not both require a
\* response and carry a correlation id returns False and puts no message in
\* any inbox.
C11_RespondRejected ==
    [][(/\ last_call'.op = "send_response"
        /\ ticks' = ticks
        /\ ~(last_call'.arg.requires_response /\ ~Falsy(last_call'.arg.correlation_id)))
       => (last_call'.ret = "False" /\ queues' = queues)]_vars

(***************************************************************************)
(* The monitoring loop: start_monitoring runs _monitoring_cycle and sleeps.*)
(***************************************************************************)
SetStore(S) ==
    /\ active_incidents' = S.active_incidents
    /\ incidents' = S.incidents

\* _monitoring_cycle begins: process_messages, then the probes are started
BeginCycle ==
    /\ mon_pc = "idle"
    /\ SetBus(process_messages(Bus, "monitoring"))
    /\ recv_log' = [recv_log EXCEPT !["monitoring"] = @ \o received_messages(Bus, "monitoring")]
    /\ probe_started' = now
    /\ probed' = {}
    /\ success_on_open' = {}
    /\ mon_pc' = "probing"
    /\ UNCHANGED <<clockVars, sent_log, last_call, consecutive_failures,
                   active_incidents, incidents, ssl_warnings, resolved_at, stageVars>>

\* the _check_endpoint task of endpoint e runs from the return of its request
\* to its end; the tasks of one cycle finish in any order
CheckEndpoint(e, outcome) ==
    LET result == HealthCheckResult(e, outcome, probe_started)
        streak == streak_after(consecutive_failures[e], result)
        r == check_endpoint(Store, result, streak, now) IN
    /\ mon_pc = "probing"
    /\ e \notin probed
    /\ outcome # "ok" => consecutive_failures[e] < MaxFailures
    /\ consecutive_failures' = [consecutive_failures EXCEPT ![e] = streak]
    /\ SetStore(r.store)
    /\ SetBus(SendAll(Bus, r.sends))
    /\ sent_log' = LogAll(sent_log, r.sends)
    /\ probed' = probed \cup {e}
    /\ success_on_open' = IF result.success /\ HasOpenIncident(Store, e)
                          THEN success_on_open \cup {active_incidents[e]}
                          ELSE success_on_open
    /\ resolved_at' = IF result.success /\ HasOpenIncident(Store, e)
                      THEN Put(resolved_at, active_incidents[e], result.timestamp)
                      ELSE resolved_at
    /\ UNCHANGED <<clockVars, recv_log, last_call, ssl_warnings, mon_pc,
                   probe_started, stageVars>>

CheckSslWarnings(expiry) ==
    /\ mon_pc = "probing"
    /\ probed = Endpoints
    /\ ssl_warnings' = check_ssl_warnings(ssl_warnings, expiry, now)
    /\ mon_pc' = "cleanup"
    /\ UNCHANGED <<clockVars, busVars, busHistory, consecutive_failures,
                   active_incidents, incidents, probed, probe_started, success_on_open,
                   resolved_at, stageVars>>

CleanupResolvedIncidents ==
    /\ mon_pc = "cleanup"
    /\ SetStore(cleanup_resolved_incidents(Store, now))
    /\ mon_pc' = "idle"
    /\ UNCHANGED <<clockVars, busVars, busHistory, consecutive_failures,
                   ssl_warnings, probed, probe_started, success_on_open, resolved_at,
                   stageVars>>

\* time passes during the sleep between cycles
MonitorTick(d) ==
    /\ mon_pc = "idle"
    /\ Tick(d, MaxMonitorTicks)
    /\ UNCHANGED <<busVars, busHistory, monVars, stageVars>>

NextMonitor ==
    \/ BeginCycle
    \/ \E e \in Endpoints : \E outcome \in ProbeOutcomes(e) : CheckEndpoint(e, outcome)
    \/ \E expiry \in [HttpsEndpoints -> SslExpiry] : CheckSslWarnings(expiry)
    \/ CleanupResolvedIncidents
    \/ \E d \in {RetentionSeconds, RetentionSeconds + 1} : MonitorTick(d)

SpecMonitor == Init /\ [][NextMonitor]_vars

\* the incidents of endpoint e, in the store or not, that are not resolved
OpenIncidentsOf(e) ==
    {i \in 1..Len(incidents) :
        incidents[i].endpoint_name = e /\ incidents[i].status # "resolved"}

\* the monitoring loop with cycles a day or a day and a second apart, every
\* certificate answer being possible on each cycle
NextCertificates ==
    \/ BeginCycle
    \/ \E e \in Endpoints : \E outcome \in {"ok", "http_5xx"} : CheckEndpoint(e, outcome)
    \/ \E expiry \in [HttpsEndpoints -> SslExpiry] : CheckSslWarnings(expiry)
    \/ CleanupResolvedIncidents
    \/ \E d \in {DaySeconds, DaySeconds + 1} : MonitorTick(d)

SpecCertificates == Init /\ [][NextCertificates]_vars

\* a certificate warning is raised for endpoint e in this step
SslWarned(e) ==
    /\ e \in DOMAIN ssl_warnings'
    /\ e \in DOMAIN ssl_warnings => ssl_warnings'[e] # ssl_warnings[e]

\* C37: a certificate warning for an endpoint comes more than a day after
\* the endpoint's previous one, and the certificate check leaves the
\* incidents and every inbox as they are.
C37_SslWarningDailyAndAdvisory ==
    [][/\ \A e \in Endpoints :
             (SslWarned(e) /\ e \in DOMAIN ssl_warnings)
                 => now - ssl_warnings[e] > DaySeconds
       /\ ((\E e \in Endpoints : SslWarned(e)) \/ (mon_pc = "probing" /\ mon_pc' = "cleanup"))
             => /\ active_incidents' = active_incidents
                /\ incidents' = incidents
                /\ queues' = queues
                /\ sent_log' = sent_log]_vars

\* a second warning for an endpoint, raised while an incident is open
C37_Witness ==
    \E e \in DOMAIN ssl_warnings :
        /\ ssl_warnings[e] > DaySeconds
        /\ \E name \in Endpoints : HasOpenIncident(Store, name)

\* C1: every endpoint has at most one incident that is not resolved, however
\* many failed probes follow the one that reached the threshold.
C1_AtMostOneOpenIncident ==
    \A e \in Endpoints : Cardinality(OpenIncidentsOf(e)) <= 1

\* an endpoint with an open incident has failed again after reaching the threshold
C1_Witness ==
    \E e \in Endpoints :
        /\ HasOpenIncident(Store, e)
        /\ consecutive_failures[e] > FailureThreshold
        /\ Cardinality(OpenIncidentsOf(e)) = 1

\* C2: whenever a failed probe brings the streak of an endpoint to the
\* threshold or above and the endpoint has no open incident, the step creates
\* an incident for the endpoint and appends one triage request for it to the
\* triage inbox.
C2_ThresholdOpensIncident ==
    [][\A e \in Endpoints :
        (/\ consecutive_failures'[e] = consecutive_failures[e] + 1
         /\ consecutive_failures'[e] >= FailureThreshold
         /\ OpenIncidentsOf(e) = {})
        => /\ Len(incidents') = Len(incidents) + 1
           /\ Last(incidents').endpoint_name = e
           /\ Last(incidents').status # "resolved"
           /\ e \in DOMAIN active_incidents'
           /\ active_incidents'[e] = Len(incidents')
           /\ Len(QueueOf(queues', "triage")) = Len(QueueOf(queues, "triage")) + 1
           /\ Last(QueueOf(queues', "triage")).type = "triage_request"
           /\ Last(QueueOf(queues', "triage")).data.incident_id = Last(incidents').id
           /\ Last(QueueOf(queues', "triage")).data.endpoint_name = e]_vars

\* C3: an incident that was open when a probe of its endpoint succeeded is
\* resolved, and stays so to the end of that poll cycle.
C3_SuccessResolvesInCycle ==
    \A i \in success_on_open : incidents[i].status = "resolved"

\* a cycle has ended in which a probe succeeded on an endpoint with an open incident
C3_Witness ==
    /\ mon_pc = "idle"
    /\ \E i \in success_on_open : incidents[i].status = "resolved"

\* the _check_endpoint task of endpoint e ends in this step with a failed
\* probe that leaves the streak at or above the threshold
FailedAtThreshold(e) ==
    /\ e \notin probed /\ e \in probed'
    /\ consecutive_failures'[e] = consecutive_failures[e] + 1
    /\ consecutive_failures'[e] >= FailureThreshold

\* C21: a failed probe at or above the threshold, on an endpoint that has an
\* open incident, changes nothing of the store but that incident's
\* last_updated, and no message is sent.
C21_RepeatedFailureOnlyTouchesLastUpdated ==
    [][\A e \in Endpoints :
          (FailedAtThreshold(e) /\ HasOpenIncident(Store, e))
              => /\ active_incidents' = active_incidents
                 /\ incidents' = [incidents EXCEPT ![active_incidents[e]].last_updated =
                                      incidents'[active_incidents[e]].last_updated]
                 /\ queues' = queues
                 /\ sent_log' = sent_log]_vars

\* an open incident whose last_updated a later failed probe has moved
C21_Witness ==
    \E e \in Endpoints :
        /\ HasOpenIncident(Store, e)
        /\ consecutive_failures[e] > FailureThreshold
        /\ IncidentOf(Store, e).last_updated > IncidentOf(Store, e).timestamp

\* C22: the probe of an endpoint leaves the streak one higher when it fails,
\* by an answer or by a raised exception, and at zero when it succeeds; a
\* probe that leaves the streak below the threshold creates no incident.
C22_StreakFollowsProbes ==
    [][\A e \in Endpoints : \A outcome \in ProbeOutcomes(e) :
          CheckEndpoint(e, outcome)
              => /\ consecutive_failures'[e] =
                        IF outcome = "ok" THEN 0 ELSE consecutive_failures[e] + 1
                 /\ consecutive_failures'[e] < FailureThreshold
                        => /\ Len(incidents') = Len(incidents)
                           /\ active_incidents' = active_incidents]_vars

\* probes that raised have taken an endpoint to the threshold, and a probe
\* that succeeded has put its streak back to zero
C22_Witness ==
    \E e \in DOMAIN active_incidents :
        /\ IncidentOf(Store, e).health_check_result.status_code = 0
        /\ consecutive_failures[e] = 0

\* C24: the status of an incident moves from detected to resolved and never
\* back: it is detected until a successful probe resolves the incident and
\* resolved ever after, in the store or purged.
C24_StatusNeverMovesBack ==
    \A i \in 1..Len(incidents) :
        incidents[i].status = IF i \in DOMAIN resolved_at THEN "resolved" ELSE "detected"

\* a failed probe at the threshold has found the resolved incident of its
\* endpoint in the store
C24_Witness ==
    \E e \in DOMAIN active_incidents :
        /\ active_incidents[e] \in DOMAIN resolved_at
        /\ consecutive_failures[e] >= FailureThreshold
        /\ IncidentOf(Store, e).last_updated > resolved_at[active_incidents[e]]
        /\ IncidentOf(Store, e).status = "resolved"

\* what the store holds about endpoint e: its entry in the dict, and its
\* incidents
KnownOf(S, e) ==
    [entry |-> IF e \in DOMAIN S.active_incidents THEN S.active_incidents[e] ELSE 0,
     incidents |-> [i \in {j \in 1..Len(S.incidents) : S.incidents[j].endpoint_name = e}
                       |-> S.incidents[i]]]

\* C25: while the probes of a cycle finish, in any order, the step that ends
\* the task of one endpoint changes neither the streak nor the incidents of
\* any other endpoint, and no endpoint ever has two open incidents.
C25_ProbesTouchOwnEndpointOnly ==
    [][(mon_pc = "probing" /\ mon_pc' = "probing")
        => \A e \in Endpoints :
              /\ ~(e \notin probed /\ e \in probed')
                    => /\ consecutive_failures'[e] = consecutive_failures[e]
                       /\ KnownOf([active_incidents |-> active_incidents',
                                   incidents |-> incidents'], e) = KnownOf(Store, e)
              /\ Cardinality({i \in 1..Len(incidents') :
                                 /\ incidents'[i].endpoint_name = e
                                 /\ incidents'[i].status # "resolved"}) <= 1]_vars

\* the tasks of one cycle have each opened the incident of their endpoint,
\* the task of svc-b first, and a later cycle has resolved the one of svc-a
C25_Witness ==
    /\ Len(incidents) = 2
    /\ incidents[1].endpoint_name = "svc-b" /\ incidents[1].status = "detected"
    /\ incidents[2].endpoint_name = "svc-a" /\ incidents[2].status = "resolved"
    /\ incidents[1].timestamp = incidents[2].timestamp

\* C19: when _cleanup_resolved_incidents has run, the store holds no
\* incident that was resolved more than 24 hours before, whatever the probes
\* since its resolution returned.
C19_ResolvedPurgedAfterRetention ==
    [][(mon_pc = "cleanup" /\ mon_pc' = "idle")
        => \A e \in DOMAIN active_incidents' :
              active_incidents'[e] \in DOMAIN resolved_at
                  => ~(resolved_at[active_incidents'[e]] < now - RetentionSeconds)]_vars

(***************************************************************************)
(* The notification agent's handler, called with notification requests.    *)
(***************************************************************************)
NotificationIncidents ==
    {incident_data("INC_1", "svc-a", "medium"),
     incident_data("INC_2", "svc-a", "critical"),
     incident_data("INC_3", "svc-b", "critical")}

\* _handle_message of the notification agent, called with message m
HandleNotification(m, ok) ==
    LET r == process_notification_request(recent_alerts, Bus, m, ok, now) IN
    /\ Len(notif_log) < MaxNotifications
    /\ m.type = "notification_request"
    /\ recent_alerts' = r.recent_alerts
    /\ SetBus(r.bus)
    /\ sent_log' = [a \in Agents |-> sent_log[a] \o Appended(Bus, r.bus, a)]
    /\ notif_log' = Append(notif_log,
                           [message |-> m, key |-> cooldown_key(m.data.incident),
                            time |-> now, delivery_results |-> r.delivery_results,
                            raised |-> r.raised, channels |-> r.channels,
                            response_data |-> r.response_data])
    /\ UNCHANGED <<clockVars, recv_log, last_call, monVars, triageVars, analysisVars,
                   notification_config>>

NotificationTick(d) ==
    /\ Tick(d, MaxNotificationTicks)
    /\ UNCHANGED <<busVars, busHistory, monVars, stageVars>>

NextNotification ==
    \/ \E incident \in NotificationIncidents : \E ok \in SUBSET RangeOf(delivery_services) :
          HandleNotification(notification_request("analysis", incident, now), ok)
    \/ \E d \in {1, CooldownSeconds - 1} : NotificationTick(d)

SpecNotification == Init /\ [][NextNotification]_vars

\* request i was handled within the cooldown window of a delivery made for
\* an earlier request with the same key
InsideCooldown(log, i) ==
    \E j \in 1..(i - 1) :
        /\ log[j].key = log[i].key
        /\ log[j].delivery_results # <<>>
        /\ log[i].time - log[j].time < CooldownSeconds

\* C4: a notification request handled within the cooldown window of a
\* delivery for the same (endpoint, severity) key makes no delivery attempt
\* and is answered, in the sender's inbox, by one response with status
\* "skipped" and reason "cooldown_period".
C4_SecondRequestSkipped ==
    [][(Len(notif_log') = Len(notif_log) + 1 /\ InsideCooldown(notif_log', Len(notif_log')))
        => LET entry == Last(notif_log')
               answers == Appended(Bus, [queues |-> queues'], entry.message.sender) IN
           /\ entry.delivery_results = <<>>
           /\ Len(answers) = 1
           /\ answers[1].data.status = "skipped"
           /\ answers[1].data.reason = "cooldown_period"
           /\ answers[1].correlation_id = entry.message.correlation_id]_vars

(***************************************************************************)
(* The notification agent under several channel configurations.            *)
(***************************************************************************)
\* the channel names _initialize_delivery_services builds a service for
SupportedChannels == {"slack", "email", "pagerduty", "teams"}

\* notification_config['delivery_channels'] as the agent may find it: the
\* default; slack from high and pagerduty from critical; pagerduty alone;
\* a channel without a delivery service alone; such a channel before slack
DispatchConfigs ==
    {DefaultConfig,
     [order |-> <<"slack", "pagerduty">>,
      channels |-> [slack |-> Channel(TRUE, "high"),
                    pagerduty |-> Channel(TRUE, "critical")]],
     [order |-> <<"slack", "pagerduty">>,
      channels |-> [slack |-> Channel(FALSE, "low"),
                    pagerduty |-> Channel(TRUE, "critical")]],
     [order |-> <<"webhook">>,
      channels |-> [webhook |-> Channel(TRUE, "critical")]],
     [order |-> <<"webhook", "slack">>,
      channels |-> [webhook |-> Channel(TRUE, "low"),
                    slack |-> Channel(TRUE, "high")]]}

InitDispatch ==
    /\ ClockInit /\ BusInit /\ MonitorInit /\ TriageInit /\ AnalysisInit
    /\ notification_config \in DispatchConfigs
    /\ recent_alerts = <<>>
    /\ notif_log = <<>>

Dispatch(m, ok) ==
    /\ Len(notif_log) < MaxDispatched
    /\ HandleNotification(m, ok)

NextDispatch ==
    \/ \E incident \in NotificationIncidents : \E ok \in SUBSET RangeOf(delivery_services) :
          Dispatch(notification_request("analysis", incident, now), ok)
    \/ \E d \in {1, CooldownSeconds} : NotificationTick(d)

SpecDispatch == InitDispatch /\ [][NextDispatch]_vars

(***************************************************************************)
(* The notification agent under several cooldown periods, with its loop.   *)
(***************************************************************************)
LongCooldownMinutes == 90

\* notification_config with the cooldown_period left out, or set to a period
\* longer than the hour after which entries are cleaned up
CooldownConfigs ==
    {DefaultConfig,
     [order |-> DefaultConfig.order, channels |-> DefaultConfig.channels,
      cooldown_period |-> LongCooldownMinutes]}

InitCooldown ==
    /\ ClockInit /\ BusInit /\ MonitorInit /\ TriageInit /\ AnalysisInit
    /\ notification_config \in CooldownConfigs
    /\ recent_alerts = <<>>
    /\ notif_log = <<>>

\* the incidents of the requests: one of each of two endpoints
CooldownIncidents ==
    {incident_data("INC_1", "svc-a", "medium"), incident_data("INC_3", "svc-b", "critical")}

\* one round of the loop of start(): process_messages, then sleep(1)
NotificationLoop ==
    /\ SetBus(process_messages(Bus, "notification"))
    /\ recv_log' = [recv_log EXCEPT
                       !["notification"] = @ \o received_messages(Bus, "notification")]
    /\ UNCHANGED <<clockVars, sent_log, last_call, monVars, stageVars>>

\* no code calls the handler that register_handler stored; here it may be
\* called, every delivery succeeding, with any request that was sent
NextCooldown ==
    \/ \E incident \in CooldownIncidents :
          BusSend(notification_request("analysis", incident, now))
    \/ \E i \in 1..Len(sent_log["notification"]) :
          HandleNotification(sent_log["notification"][i], RangeOf(delivery_services))
    \/ NotificationLoop
    \/ \E d \in {CooldownSeconds, CooldownPruneSeconds + 1} : NotificationTick(d)

SpecCooldown == InitCooldown /\ [][NextCooldown]_vars

\* C38: after a round of the notification agent's loop, and after the
\* handling of a notification request, the cooldown map holds no entry older
\* than one hour.
C38_NoEntryOlderThanHorizonAfterCycle ==
    [][(NotificationLoop \/ Len(notif_log') = Len(notif_log) + 1)
          => \A key \in DOMAIN recent_alerts' :
                 ~(recent_alerts'[key] < now - CooldownPruneSeconds)]_vars

\* request i was handled less than one configured cooldown period after a
\* delivery made for an earlier request with the same key
InsideConfiguredCooldown(log, i) ==
    \E j \in 1..(i - 1) :
        /\ log[j].key = log[i].key
        /\ log[j].delivery_results # <<>>
        /\ log[i].time - log[j].time < cooldown_period * 60

\* C40: whatever the configured cooldown period, a request handled less than
\* one period after a delivery for its key is skipped, deliveries for other
\* keys in between notwithstanding.
C40_PruningKeepsEntriesInsideWindow ==
    [][(Len(notif_log') = Len(notif_log) + 1
          /\ InsideConfiguredCooldown(notif_log', Len(notif_log')))
        => /\ Last(notif_log').delivery_results = <<>>
           /\ Last(notif_log').response_data.status = "skipped"]_vars

\* the channels that are configured and enabled
EnabledChannels == {c \in RangeOf(ConfiguredChannels) : ChannelConfig[c].enabled}

\* the enabled channels whose minimum severity the incident meets, in the
\* order low < medium < high < critical
QualifyingChannels(incident) ==
    {c \in EnabledChannels :
        level_hierarchy[incident.alert_level]
            >= level_hierarchy[ChannelConfig[c].min_alert_level]}

\* the request of a log entry was not skipped and no channel qualifies for it
FallbackCase(entry) ==
    /\ entry.response_data.status # "skipped"
    /\ QualifyingChannels(entry.message.data.incident) = {}

\* one enabled channel was selected and one delivery was attempted, on it
OneFallbackAttempt(entry) ==
    /\ Len(entry.channels) = 1
    /\ entry.channels[1] \in EnabledChannels
    /\ Len(entry.delivery_results) = 1
    /\ entry.delivery_results[1].channel = entry.channels[1]

C15_SelectedIffQualifying ==
    \A i \in 1..Len(notif_log) :
        LET entry == notif_log[i]
            qualifying == QualifyingChannels(entry.message.data.incident) IN
        (entry.response_data.status # "skipped" /\ qualifying # {})
            => /\ RangeOf(entry.channels) = qualifying
               /\ Len(entry.channels) = Cardinality(qualifying)

C15_Witness ==
    /\ \E i \in 1..Len(notif_log) :
          /\ notif_log[i].channels # <<>>
          /\ EnabledChannels \ RangeOf(notif_log[i].channels) # {}
    /\ \E j \in 1..Len(notif_log) : \E c \in RangeOf(notif_log[j].channels) :
          /\ Cardinality(RangeOf(notif_log[j].channels)) = 2
          /\ ChannelConfig[c].min_alert_level = notif_log[j].message.data.incident.alert_level

\* C16: for a request that is not skipped there is one delivery record per
\* selected channel, the k-th record names the k-th selected channel, and the
\* counts of successful and failed deliveries in the report add up to the
\* number of selected channels.
C16_OneRecordPerSelectedChannel ==
    \A i \in 1..Len(notif_log) :
        LET entry == notif_log[i] IN
        entry.response_data.status # "skipped"
            => /\ Len(entry.delivery_results) = Len(entry.channels)
               /\ \A k \in 1..Len(entry.delivery_results) :
                      entry.delivery_results[k].channel = entry.channels[k]
               /\ entry.response_data.status = "completed"
                      => entry.response_data.successful_deliveries
                             + entry.response_data.failed_deliveries = Len(entry.channels)

\* C17: the handling of a request writes a cooldown entry only for the key
\* of the request and only when a delivery was attempted for it; the handling
\* of a skipped request leaves the cooldown map as it was.
C17_CooldownWrittenOnlyOnAttempt ==
    [][Len(notif_log') = Len(notif_log) + 1
        => LET entry == Last(notif_log')
               written == {key \in DOMAIN recent_alerts' :
                              \/ key \notin DOMAIN recent_alerts
                              \/ recent_alerts'[key] # recent_alerts[key]} IN
           /\ written # {} => (written = {entry.key} /\ entry.delivery_results # <<>>)
           /\ entry.response_data.status = "skipped" => recent_alerts' = recent_alerts]_vars

\* request j of the log was not skipped and wrote the cooldown entry that
\* is still inside its window when request i is handled
DeliveredBefore(log, j, i) ==
    /\ j < i
    /\ log[j].response_data.status = "completed"
    /\ log[i].time - log[j].time < CooldownSeconds

\* C18: a request that is skipped for cooldown follows, within the window, a
\* delivery for the same endpoint at the same severity; a delivery for the
\* endpoint at another severity never makes it skipped.
C18_SkippedOnlyBySameSeverity ==
    \A i \in 1..Len(notif_log) :
        notif_log[i].response_data.status = "skipped"
            => \E j \in 1..Len(notif_log) :
                  /\ DeliveredBefore(notif_log, j, i)
                  /\ notif_log[j].message.data.incident.endpoint_name
                         = notif_log[i].message.data.incident.endpoint_name
                  /\ notif_log[j].message.data.incident.alert_level
                         = notif_log[i].message.data.incident.alert_level

\* a request for svc-a at one severity is delivered inside the window of a
\* delivery for svc-a at another severity
C18_Witness ==
    \E i \in 1..Len(notif_log) : \E j \in 1..Len(notif_log) :
        /\ DeliveredBefore(notif_log, j, i)
        /\ notif_log[i].response_data.status = "completed"
        /\ notif_log[i].delivery_results # <<>>
        /\ notif_log[j].message.data.incident.endpoint_name
               = notif_log[i].message.data.incident.endpoint_name
        /\ notif_log[j].message.data.incident.alert_level
               # notif_log[i].message.data.incident.alert_level
        /\ \A k \in 1..(i - 1) : notif_log[k].message.data.incident.alert_level
               # notif_log[i].message.data.incident.alert_level

(***************************************************************************)
(* The triage agent's handler, called with triage requests.                *)
(***************************************************************************)
\* _handle_message of the triage agent, called with message m
HandleTriage(m, outcomes) ==
    LET r == process_triage_request(Bus, m, outcomes, now) IN
    /\ Len(triage_log) < MaxTriaged
    /\ m.type = "triage_request"
    /\ SetBus(r.bus)
    /\ sent_log' = [a \in Agents |-> sent_log[a] \o Appended(Bus, r.bus, a)]
    /\ triage_log' = Append(triage_log,
                            [message |-> m, outcomes |-> outcomes, time |-> now,
                             triage_data |-> r.triage_data, raised |-> r.raised])
    /\ UNCHANGED <<clockVars, recv_log, last_call, monVars, notifVars, analysisVars>>

NextTriage ==
    \E e \in Endpoints : \E outcomes \in [RangeOf(Collectors) -> CollectorOutcomes] :
          HandleTriage(triage_request("monitoring", IncidentID(now), e, EndpointUrl(e), now),
                       outcomes)

SpecTriage == Init /\ [][NextTriage]_vars

\* C5: the bundle collected for a triage request has an entry for each of
\* logs, network_diagnostics and system_metrics, whatever the collectors do.
C5_BundleHasEveryCollector ==
    \A i \in 1..Len(triage_log) :
        LET bundle == triage_log[i].triage_data IN
        /\ "data_collection" \in DOMAIN bundle
        /\ DOMAIN bundle.data_collection = RangeOf(Collectors)

\* C6: the handling of a triage request appends exactly one analysis request,
\* for the incident of the triage request, to the analysis inbox.
C6_TriageEmitsOneAnalysisRequest ==
    [][Len(triage_log') = Len(triage_log) + 1
        => LET emitted == Appended(Bus, [queues |-> queues'], "analysis") IN
           /\ Len(emitted) = 1
           /\ emitted[1].type = "analysis_request"
           /\ emitted[1].data.incident_id = Last(triage_log').message.data.incident_id]_vars

\* C26: when a collector is still running at the deadline, the bundle has
\* status "timeout" and holds the result of every collector that had
\* returned.
C26_TimeoutBundleKeepsCompleted ==
    \A i \in 1..Len(triage_log) :
        LET bundle == triage_log[i].triage_data
            outcomes == triage_log[i].outcomes
            completed == {c \in RangeOf(Collectors) : outcomes[c] # "slow"} IN
        (\E c \in RangeOf(Collectors) : outcomes[c] = "slow")
            => /\ Get(bundle, "status", None) = "timeout"
               /\ completed \subseteq DOMAIN Get(bundle, "data_collection", EmptyDict)

\* C27: when every collector is still running at the deadline, the bundle
\* has status "timeout" and a summary that lists no successful source.
C27_AllSlowBundleHasEmptySummary ==
    \A i \in 1..Len(triage_log) :
        LET bundle == triage_log[i].triage_data IN
        (\A c \in RangeOf(Collectors) : triage_log[i].outcomes[c] = "slow")
            => /\ Get(bundle, "status", None) = "timeout"
               /\ "summary" \in DOMAIN bundle
               /\ bundle.summary.data_sources_successful = <<>>

(***************************************************************************)
(* The summary of a bundle, on the results asyncio.gather returns for the  *)
(* collectors' coroutines.                                                 *)
(***************************************************************************)
\* the loop over the gathered results and _generate_triage_summary, for
\* collectors that all end before the deadline
GenerateTriageSummary(outcomes) ==
    LET aws == [i \in 1..Len(Collectors) |->
                   Coroutine(Collectors[i], outcomes[Collectors[i]])]
        data_collection == data_collection_of(gather_with_timeout(aws).results) IN
    /\ Len(triage_log) < MaxTriaged
    /\ triage_log' = Append(triage_log,
                            [outcomes |-> outcomes,
                             triage_data |->
                                [data_collection |-> data_collection,
                                 summary |-> generate_triage_summary(data_collection)]])
    /\ UNCHANGED <<clockVars, busVars, busHistory, monVars, notifVars, analysisVars>>

NextSummary ==
    \E outcomes \in [RangeOf(Collectors) -> CollectorOutcomes \ {"slow"}] :
        GenerateTriageSummary(outcomes)

SpecSummary == Init /\ [][NextSummary]_vars

\* C28: when a collector returns an error marker or raises, the bundle
\* holds the result of every collector, every source is in exactly one of
\* data_sources_successful and data_sources_failed, and every source whose
\* entry carries an error marker is in data_sources_failed.
C28_FailedCollectorsListedAsFailed ==
    \A i \in 1..Len(triage_log) :
        LET data_collection == triage_log[i].triage_data.data_collection
            summary == triage_log[i].triage_data.summary
            successful == RangeOf(summary.data_sources_successful)
            failed == RangeOf(summary.data_sources_failed) IN
        /\ DOMAIN data_collection = RangeOf(Collectors)
        /\ \A c \in RangeOf(Collectors) :
              /\ (c \in successful) # (c \in failed)
              /\ "error" \in DOMAIN data_collection[c] => c \in failed

\* C12: the handling of a request puts a response in the requester's inbox,
\* with the correlation id of the request and a status of completed, skipped,
\* failed or error; so it is for the triage handler, whose collection raises.
C12_HandlerAnswersRequester ==
    [][Len(triage_log') = Len(triage_log) + 1
        => LET request == Last(triage_log').message
               answers == Appended(Bus, [queues |-> queues'], request.sender) IN
           \E i \in 1..Len(answers) :
               /\ answers[i].correlation_id = request.correlation_id
               /\ answers[i].recipient = request.sender
               /\ answers[i].data.status \in {"completed", "skipped", "failed", "error"}]_vars

(***************************************************************************)
(* The analysis agent's handler, called with analysis requests.            *)
(***************************************************************************)
\* a health check as a dict: empty, as the triage agent sends it, or with
\* the fields of a failed HealthCheckResult that the analysis reads
health_check_dict(endpoint_name, error_message, ssl_expiry_days) ==
    [endpoint_name |-> endpoint_name, error_message |-> error_message,
     ssl_expiry_days |-> ssl_expiry_days]

FailedHealthChecks ==
    {health_check_dict("svc-a", "Connection timeout", [known |-> FALSE, days |-> 0]),
     health_check_dict("svc-a", "HTTP 503 error", [known |-> TRUE, days |-> 10]),
     health_check_dict("svc-b", "HTTP 503 error", [known |-> FALSE, days |-> 0])}

AnalysisHealthChecks == {EmptyDict} \cup FailedHealthChecks

\* the bundle _collect_diagnostic_data returns, and a bundle with the
\* system metrics a collector would report under memory pressure
AnalysisTriageData ==
    {collect_diagnostic_data("INC_0", "svc-a", "https://svc-a",
                             [c \in RangeOf(Collectors) |-> "ok"], 0),
     [incident_id |-> "INC_0",
      data_collection |->
         [system_metrics |->
             [status |-> "success",
              system_metrics |-> [cpu_usage_percent |-> 10,
                                  memory_usage_percent |-> 90]]]]}

AnalysisLogEntry(incident_id, health_check, triage_data, history, t, result, raised) ==
    [incident_id |-> incident_id, health_check |-> health_check,
     triage_data |-> triage_data, history |-> history, time |-> t,
     result |-> result, raised |-> raised]

\* _handle_message of the analysis agent, called with message m
HandleAnalysis(m) ==
    /\ Len(analysis_log) < MaxAnalyses
    /\ m.type = "analysis_request"
    /\ \E r \in {process_analysis_request(historical_incidents, pattern_actions, Bus, m, now)} :
        /\ historical_incidents' = r.history
        /\ pattern_actions' = r.actions
        /\ SetBus(r.bus)
        /\ sent_log' = [a \in Agents |-> sent_log[a] \o Appended(Bus, r.bus, a)]
        /\ analysis_log' = Append(analysis_log,
               AnalysisLogEntry(m.data.incident_id, m.data.health_check, m.data.triage_data,
                                historical_incidents, now, r.analysis_result, r.raised))
    /\ UNCHANGED <<clockVars, recv_log, last_call, monVars, notifVars, triageVars>>

NextAnalysis ==
    \E incident_id \in {"INC_0", "INC_1"} : \E health_check \in AnalysisHealthChecks :
        \E triage_data \in AnalysisTriageData :
            HandleAnalysis(analysis_request("triage", incident_id, health_check,
                                            triage_data, now))

SpecAnalysis == Init /\ [][NextAnalysis]_vars

\* C7: the handling of an analysis request appends exactly one notification
\* request, for the incident of the analysis request, to the notification
\* inbox; so it is for the first analysis, whose history is empty.
C7_AnalysisEmitsOneNotificationRequest ==
    [][Len(analysis_log') = Len(analysis_log) + 1
        => LET emitted == Appended(Bus, [queues |-> queues'], "notification") IN
           /\ Len(emitted) = 1
           /\ emitted[1].type = "notification_request"
           /\ emitted[1].data.incident.id = Last(analysis_log').incident_id]_vars

\* C31: the history holds the records of the most recently completed
\* analyses, in completion order, one per analysis and at most 100.
C31_HistoryHoldsLatestAnalyses ==
    LET kept == IF Len(analysis_log) > HistoryCapacity THEN HistoryCapacity
                ELSE Len(analysis_log)
        first == Len(analysis_log) - kept IN
    /\ Len(historical_incidents) = kept
    /\ \A k \in 1..kept :
          historical_incidents[k].incident_id = analysis_log[first + k].incident_id

(***************************************************************************)
(* The pattern matcher as a function of the incident data.                 *)
(***************************************************************************)
\* health checks for the matcher: those of the analysis and a certificate
\* error on an endpoint whose certificate expires in ten days
PatternHealthChecks ==
    AnalysisHealthChecks
    \cup {health_check_dict("svc-a", "SSL certificate error", [known |-> TRUE, days |-> 10])}

\* match_patterns on the catalogue, for one incident's data
MatchPatterns(health_check, triage_data) ==
    /\ Len(analysis_log) < MaxAnalyses
    /\ \E hypotheses \in {match_patterns(pattern_actions, health_check, triage_data)} :
          analysis_log' = Append(analysis_log,
                                 [health_check |-> health_check,
                                  triage_data |-> triage_data,
                                  hypotheses |-> hypotheses])
    /\ UNCHANGED <<clockVars, busVars, busHistory, monVars, notifVars, triageVars,
                   historical_incidents, pattern_actions>>

NextPatterns ==
    \E health_check \in PatternHealthChecks : \E triage_data \in AnalysisTriageData :
        MatchPatterns(health_check, triage_data)

SpecPatterns == Init /\ [][NextPatterns]_vars

\* 0.4 * keyword share + 0.4 * evidence pattern share + context boost + base
\* boost of a catalogue pattern on a logged incident's data, in hundredths
PatternScore(name, entry) ==
    LET text == extract_text_data(entry.health_check, entry.triage_data)
        keywords == patterns[name].keywords
        evidence == patterns[name].evidence_patterns IN
    (40 * CountFound(keywords, text)) \div Len(keywords)
    + (40 * CountFound(evidence, text)) \div Len(evidence)
    + calculate_context_boost(name, entry.health_check, entry.triage_data)
    + patterns[name].confidence_boost

\* the hypotheses of a logged match that come from one catalogue pattern
HypothesesOf(name, entry) ==
    {j \in 1..Len(entry.hypotheses) : entry.hypotheses[j].id = "pattern_" \o name}

\* C32: a catalogue pattern yields a hypothesis iff its score is greater
\* than 0.1, and the hypothesis's confidence is in [0,1] and is min(1, score)
\* as the doubles add up (within two units in the last place).
C32_PatternConfidenceIsCappedScore ==
    \A i \in 1..Len(analysis_log) : \A name \in RangeOf(PatternNames) :
        LET entry == analysis_log[i]
            score == PatternScore(name, entry)
            capped == IF score > 100 THEN 100 ELSE score IN
        /\ (HypothesesOf(name, entry) # {}) <=> score > 10
        /\ Cardinality(HypothesesOf(name, entry)) <= 1
        /\ \A j \in HypothesesOf(name, entry) :
              /\ entry.hypotheses[j].confidence >= 0
              /\ entry.hypotheses[j].confidence <= 1000
              /\ entry.hypotheses[j].confidence - 10 * capped \in -2..2

\* a match with a hypothesis whose score is above 1 and is capped, and one
\* whose score is the base boost alone
C32_Witness ==
    \E i \in 1..Len(analysis_log) :
        /\ \E name \in RangeOf(PatternNames) :
              /\ PatternScore(name, analysis_log[i]) > 100
              /\ \E j \in HypothesesOf(name, analysis_log[i]) :
                    analysis_log[i].hypotheses[j].confidence = 1000
        /\ \E name \in RangeOf(PatternNames) :
              /\ PatternScore(name, analysis_log[i]) = patterns[name].confidence_boost
              /\ HypothesesOf(name, analysis_log[i]) # {}

(***************************************************************************)
(* _perform_root_cause_analysis as a function of the agent's history.      *)
(***************************************************************************)
\* what _store_incident_for_history keeps of an analysed incident
StoredIncidents ==
    {store_incident_for_history(<<>>, "INC_H", health_check,
         [incident_id |-> "INC_H", status |-> "error", error |-> "TypeError"],
         [incident_id |-> "INC_H", status |-> "error", error |-> "UnboundLocalError"],
         0 - age * DaySeconds)[1] :
     health_check \in FailedHealthChecks, age \in {1, 40}}

\* histories of up to MaxHistory incidents, made of one or two stored incidents
Histories ==
    {[i \in 1..n |-> IF i % 2 = 1 THEN a ELSE b] :
        n \in 0..MaxHistory, a \in StoredIncidents, b \in StoredIncidents}

InitRootCause ==
    /\ ClockInit /\ BusInit /\ MonitorInit /\ NotificationInit /\ TriageInit
    /\ historical_incidents \in Histories
    /\ pattern_actions = InitialActions
    /\ analysis_log = <<>>

PerformRootCauseAnalysis(incident_id, health_check, triage_data) ==
    /\ Len(analysis_log) < MaxAnalyses
    /\ \E r \in {perform_root_cause_analysis(historical_incidents, pattern_actions,
                                            incident_id, health_check, triage_data, now)} :
        /\ pattern_actions' = r.actions
        /\ analysis_log' = Append(analysis_log,
               AnalysisLogEntry(incident_id, health_check, triage_data,
                                historical_incidents, now, r.result, None))
    /\ UNCHANGED <<clockVars, busVars, busHistory, monVars, notifVars, triageVars,
                   historical_incidents>>

NextRootCause ==
    \E health_check \in AnalysisHealthChecks : \E triage_data \in AnalysisTriageData :
        PerformRootCauseAnalysis("INC_0", health_check, triage_data)

SpecRootCause == InitRootCause /\ [][NextRootCause]_vars

\* the hypotheses generated for a logged analysis, pattern-based then
\* correlation-based, before they are pooled
GeneratedHypotheses(entry) ==
    match_patterns(InitialActions, entry.health_check, entry.triage_data)
    \o generate_correlation_hypotheses(
           analyze_correlations(
               [endpoint_name |-> Get(entry.health_check, "endpoint_name", None),
                health_check |-> entry.health_check], entry.history, entry.time))

HasHypotheses(result) == "hypotheses" \in DOMAIN result /\ result.hypotheses # <<>>

\* the greatest confidence among the hypotheses generated for a logged analysis
GreatestConfidence(hypotheses) ==
    CHOOSE c \in {hypotheses[j].confidence : j \in 1..Len(hypotheses)} :
        \A j \in 1..Len(hypotheses) : c >= hypotheses[j].confidence

PrimaryConfidence(entry) ==
    CHOOSE c \in {GreatestConfidence(generated) :
                     generated \in {GeneratedHypotheses(entry)}} : TRUE

CorrelationsFor(health_check, history, t) ==
    analyze_correlations([endpoint_name |-> Get(health_check, "endpoint_name", None),
                          health_check |-> health_check], history, t)

\* the rest of _perform_root_cause_analysis once step 1 has returned
\* pattern_hypotheses
SelectPrimary(incident_id, health_check, triage_data, pattern_hypotheses) ==
    /\ Len(analysis_log) < MaxSelections
    /\ \E r \in {rank_and_select(historical_incidents, pattern_actions, incident_id, now,
                                 pattern_hypotheses,
                                 CorrelationsFor(health_check, historical_incidents, now))} :
        /\ pattern_actions' = r.actions
        /\ analysis_log' = Append(analysis_log,
               [incident_id |-> incident_id, health_check |-> health_check,
                triage_data |-> triage_data, history |-> historical_incidents,
                time |-> now, result |-> r.result, raised |-> None,
                pattern_hypotheses |-> pattern_hypotheses])
    /\ UNCHANGED <<clockVars, busVars, busHistory, monVars, notifVars, triageVars,
                   historical_incidents>>

\* the matcher's list for the analysed data, and a list without hypotheses
NextSelection ==
    \E health_check \in AnalysisHealthChecks : \E triage_data \in AnalysisTriageData :
        \E pattern_hypotheses \in
               {match_patterns(pattern_actions, health_check, triage_data), <<>>} :
            SelectPrimary("INC_0", health_check, triage_data, pattern_hypotheses)

SpecSelection == InitRootCause /\ [][NextSelection]_vars

\* the hypotheses pooled for a logged selection
PooledHypotheses(entry) ==
    entry.pattern_hypotheses
    \o generate_correlation_hypotheses(
           CorrelationsFor(entry.health_check, entry.history, entry.time))

\* C30: an analysis for which no hypothesis is generated ends with a result
\* that is no error record, has no primary hypothesis, has confidence level
\* "low" and a summary that asks for manual investigation.
C30_NoHypothesisIsValidOutcome ==
    \A i \in 1..Len(analysis_log) :
        LET result == analysis_log[i].result IN
        PooledHypotheses(analysis_log[i]) = <<>> =>
            /\ "status" \notin DOMAIN result
            /\ "error" \notin DOMAIN result
            /\ result.hypotheses = <<>>
            /\ result.primary_hypothesis = NoHypothesis
            /\ result.confidence_level = "low"
            /\ result.analysis_summary = ManualInvestigation

\* the first analysis of an agent, for which no hypothesis is generated
C30_Witness ==
    \E i \in 1..Len(analysis_log) :
        /\ PooledHypotheses(analysis_log[i]) = <<>>
        /\ analysis_log[i].history = <<>>
        /\ analysis_log[i].result.analysis_summary = ManualInvestigation

GenerationIndex(id) ==
    IF \E k \in 1..Len(PatternNames) : id = "pattern_" \o PatternNames[k]
    THEN CHOOSE k \in 1..Len(PatternNames) : id = "pattern_" \o PatternNames[k]
    ELSE Len(PatternNames) + 1

\* C34: the primary hypothesis is, among the generated hypotheses of the
\* greatest confidence, the one generated first; the hypothesis made from the
\* history is primary only if its confidence is strictly greater than that
\* of every pattern hypothesis.
C34_TiesGoToFirstGenerated ==
    \A i \in 1..Len(analysis_log) :
        LET result == analysis_log[i].result IN
        HasHypotheses(result) =>
            \A j \in 1..Len(result.hypotheses) :
                \/ result.hypotheses[j].confidence < result.primary_hypothesis.confidence
                \/ /\ result.hypotheses[j].confidence = result.primary_hypothesis.confidence
                   /\ GenerationIndex(result.primary_hypothesis.id)
                          <= GenerationIndex(result.hypotheses[j].id)

\* a result whose history hypothesis has the confidence of the best pattern
\* hypothesis, which is the primary
C34_Witness ==
    \E i \in 1..Len(analysis_log) :
        /\ HasHypotheses(analysis_log[i].result)
        /\ \E j \in 1..Len(analysis_log[i].result.hypotheses) :
              /\ analysis_log[i].result.hypotheses[j].id = "correlation_frequent_incident"
              /\ analysis_log[i].result.hypotheses[j].confidence
                     = analysis_log[i].result.primary_hypothesis.confidence
        /\ analysis_log[i].result.primary_hypothesis.id # "correlation_frequent_incident"

\* the similar incidents an analysis result reports
SimilarOf(result) ==
    Get(Get(result, "correlations", EmptyDict), "similar_incidents", <<>>)

\* 0.5 for the endpoint + 0.1 a shared word + 0.2 or 0.1 for recency of a
\* stored incident against a logged analysis, in hundredths
SimilaritySum(entry, incident) ==
    LET current_error == Lower(Get(entry.health_check, "error_message", ""))
        hist_error == Lower(Get(Get(incident, "health_check", EmptyDict),
                                "error_message", ""))
        days_diff == (entry.time - incident.timestamp) \div DaySeconds IN
    (IF Get(incident, "endpoint_name", "") = Get(entry.health_check, "endpoint_name", None)
     THEN 50 ELSE 0)
    + 10 * Cardinality(Words(current_error) \cap Words(hist_error))
    + (IF days_diff < 7 THEN 20 ELSE IF days_diff < 30 THEN 10 ELSE 0)

RecurringOf(result) ==
    {j \in 1..Len(result.hypotheses) :
        result.hypotheses[j].id = "correlation_frequent_incident"}

\* C36: a result has the recurring-incident hypothesis iff two or more
\* similar incidents were found, and its confidence is min(0.1 * count, 0.7)
\* as the doubles multiply (within one unit in the last place).
C36_RecurringIffTwoSimilar ==
    \A i \in 1..Len(analysis_log) :
        LET result == analysis_log[i].result
            count == Len(SimilarOf(result))
            expected == IF 10 * count < 70 THEN 10 * count ELSE 70 IN
        "hypotheses" \in DOMAIN result =>
            /\ (RecurringOf(result) # {}) <=> count >= 2
            /\ Cardinality(RecurringOf(result)) <= 1
            /\ \A j \in RecurringOf(result) :
                  result.hypotheses[j].confidence - 10 * expected \in -1..1

\* a result with exactly two similar incidents and the hypothesis at 0.2, and
\* a result with one similar incident and no such hypothesis
C36_Witness ==
    /\ \E i \in 1..Len(analysis_log) :
          /\ "hypotheses" \in DOMAIN analysis_log[i].result
          /\ Len(SimilarOf(analysis_log[i].result)) = 2
          /\ \E j \in RecurringOf(analysis_log[i].result) :
                analysis_log[i].result.hypotheses[j].confidence = 200
    /\ \E i \in 1..Len(analysis_log) :
          /\ "hypotheses" \in DOMAIN analysis_log[i].result
          /\ Len(SimilarOf(analysis_log[i].result)) = 1
          /\ RecurringOf(analysis_log[i].result) = {}

\* C8: a non-empty hypothesis list of an analysis result is in order of
\* non-increasing confidence, holds the generated hypotheses, and the
\* confidence of the primary hypothesis is the greatest confidence generated.
C8_HypothesesRankedByConfidence ==
    \A i \in 1..Len(analysis_log) :
        LET result == analysis_log[i].result IN
        \A generated \in {GeneratedHypotheses(analysis_log[i])} :
        HasHypotheses(result) =>
            /\ \A j \in 1..(Len(result.hypotheses) - 1) :
                  result.hypotheses[j].confidence >= result.hypotheses[j + 1].confidence
            /\ Len(result.hypotheses) = Len(generated)
            /\ \A j \in 1..Len(generated) :
                  /\ result.primary_hypothesis.confidence >= generated[j].confidence
                  /\ \E k \in 1..Len(result.hypotheses) :
                        result.hypotheses[k].id = generated[j].id
            /\ \E j \in 1..Len(generated) :
                  result.primary_hypothesis.confidence = generated[j].confidence

\* an analysis whose correlation-based hypothesis outranks the six
\* pattern-based ones
C8_Witness ==
    \E i \in 1..Len(analysis_log) :
        /\ HasHypotheses(analysis_log[i].result)
        /\ Len(analysis_log[i].result.hypotheses) = Len(PatternNames) + 1
        /\ analysis_log[i].result.primary_hypothesis.id = "correlation_frequent_incident"

(***************************************************************************)
(* The pipeline: the monitoring loop, and the loops of the agents that     *)
(* take requests, on one bus.                                              *)
(***************************************************************************)
PollInterval == 60

StageAgents == {"triage", "analysis", "notification"}

\* the next _monitoring_cycle begins when the sleep of start_monitoring is over
BeginCycleAfterSleep ==
    /\ probed = Endpoints => now >= probe_started + PollInterval
    /\ BeginCycle

\* await asyncio.sleep(poll_interval) of start_monitoring
SleepPollInterval ==
    /\ mon_pc = "idle"
    /\ probed = Endpoints
    /\ now < probe_started + PollInterval
    /\ Tick(PollInterval, MaxSleeps)
    /\ UNCHANGED <<busVars, busHistory, monVars, stageVars>>

\* one round of the loop of start(): process_messages takes the inbox of the
\* agent and returns the messages; the loop drops what is returned
StageLoop(a) ==
    /\ SetBus(process_messages(Bus, a))
    /\ recv_log' = [recv_log EXCEPT ![a] = @ \o received_messages(Bus, a)]
    /\ UNCHANGED <<clockVars, sent_log, last_call, monVars, stageVars>>

\* the collectors all succeed
AllCollectorsOk == [c \in RangeOf(Collectors) |-> "ok"]

\* no code calls the handler that register_handler stored; here the triage
\* handler may be called with any request that was sent to the triage agent
NextPipeline ==
    \/ BeginCycleAfterSleep
    \/ \E e \in Endpoints : \E outcome \in {"ok", "http_5xx"} : CheckEndpoint(e, outcome)
    \/ CheckSslWarnings([e \in HttpsEndpoints |-> [known |-> FALSE, days |-> 0]])
    \/ CleanupResolvedIncidents
    \/ SleepPollInterval
    \/ \E a \in StageAgents : StageLoop(a)
    \/ \E i \in 1..Len(sent_log["triage"]) :
          HandleTriage(sent_log["triage"][i], AllCollectorsOk)

SpecPipeline == Init /\ [][NextPipeline]_vars

\* the monitoring loop on its own, polling every PollInterval seconds, each
\* probe ending in any of the ways ProbeOutcomes lists
NextCycles ==
    \/ BeginCycleAfterSleep
    \/ \E e \in Endpoints : \E outcome \in ProbeOutcomes(e) : CheckEndpoint(e, outcome)
    \/ CheckSslWarnings([e \in HttpsEndpoints |-> [known |-> FALSE, days |-> 0]])
    \/ CleanupResolvedIncidents
    \/ SleepPollInterval

SpecCycles == Init /\ [][NextCycles]_vars

\* the history of the handler of an agent: one entry per request handled
StageLog(a) ==
    CASE a = "triage" -> triage_log
      [] a = "analysis" -> analysis_log
      [] a = "notification" -> notif_log

\* C13: the messages taken out of the inbox of the triage, analysis or
\* notification agent are handed to the handler of that agent: when the
\* inbox is taken, the handler handles as many requests as were taken.
C13_InboxReachesHandler ==
    [][\A a \in StageAgents :
          Len(recv_log'[a]) > Len(recv_log[a])
          => Len(StageLog(a)') >= Len(StageLog(a)) + Len(recv_log'[a]) - Len(recv_log[a])]_vars

\* the incident a triage, analysis or notification request is about
RequestIncidentId(m) ==
    IF m.type = "notification_request" THEN m.data.incident.id ELSE m.data.incident_id

\* the ids of the incidents that a successful probe has resolved
ResolvedIds == {incidents[i].id : i \in {j \in 1..Len(incidents) :
                                            incidents[j].status = "resolved"}}

\* C20: no step appends, to the inbox of the triage, analysis or notification
\* agent, a request about an incident that a successful probe had resolved
\* before the step.
C20_NoRequestAfterResolution ==
    [][\A a \in StageAgents :
          LET routed == Appended(Bus, [queues |-> queues'], a) IN
          \A k \in 1..Len(routed) :
              routed[k].type \in RequestTypes
                  => RequestIncidentId(routed[k]) \notin ResolvedIds]_vars

\* the triage handler has handled the request of an incident after the probe
\* that resolved the incident
C20_Witness ==
    \E i \in 1..Len(triage_log) : \E j \in DOMAIN resolved_at :
        /\ incidents[j].id = triage_log[i].message.data.incident_id
        /\ incidents[j].status = "resolved"
        /\ triage_log[i].time > resolved_at[j]

\* C23: any two incidents the monitor has created have different ids, and
\* the triage requests sent for them have different correlation ids.
C23_IncidentIdsDistinct ==
    /\ \A i, j \in 1..Len(incidents) : i # j => incidents[i].id # incidents[j].id
    /\ \A i, j \in 1..Len(sent_log["triage"]) :
          i # j => sent_log["triage"][i].correlation_id
                       # sent_log["triage"][j].correlation_id

(***************************************************************************)
(* The requests of one incident, from the monitor to the notification.     *)
(***************************************************************************)
\* the requests of the kind given that were sent to the agent
RequestsTo(a, type) ==
    {sent_log[a][i] : i \in {k \in 1..Len(sent_log[a]) : sent_log[a][k].type = type}}

\* _trigger_triage_workflow for the incident the monitor opens for endpoint
\* e at this second
TriggerTriageWorkflow(e) ==
    /\ \A q \in RequestsTo("triage", "triage_request") :
           q.data.endpoint_name # e /\ q.data.incident_id # IncidentID(now)
    /\ \E b \in {send_message(Bus, triage_request("monitoring", IncidentID(now), e,
                                                  EndpointUrl(e), now))} :
        /\ SetBus(b)
        /\ sent_log' = [a \in Agents |-> sent_log[a] \o Appended(Bus, b, a)]
    /\ UNCHANGED <<clockVars, recv_log, last_call, monVars, stageVars>>

\* _trigger_analysis_workflow of the triage agent for the triage request m,
\* with the bundle collected for it
TriggerAnalysisWorkflow(m) ==
    /\ m.type = "triage_request"
    /\ \A q \in RequestsTo("analysis", "analysis_request") :
           q.data.incident_id # m.data.incident_id
    /\ \E b \in {trigger_analysis_workflow(Bus, m.data.incident_id,
                     collect_diagnostic_data(m.data.incident_id, m.data.endpoint_name,
                                             m.data.url, AllCollectorsOk, now), now)} :
        /\ SetBus(b)
        /\ sent_log' = [a \in Agents |-> sent_log[a] \o Appended(Bus, b, a)]
    /\ UNCHANGED <<clockVars, recv_log, last_call, monVars, stageVars>>

\* _trigger_notification_workflow of the analysis agent for the analysis
\* request m, with the result of the analysis made for it
TriggerNotificationWorkflow(m) ==
    /\ m.type = "analysis_request"
    /\ \A q \in RequestsTo("notification", "notification_request") :
           q.data.incident.id # m.data.incident_id
    /\ \E analysis \in {perform_root_cause_analysis(historical_incidents, pattern_actions,
                            m.data.incident_id, m.data.health_check,
                            m.data.triage_data, now)} :
       \E b \in {trigger_notification_workflow(Bus, m.data.incident_id,
                     m.data.health_check, analysis.result, now)} :
        /\ pattern_actions' = analysis.actions
        /\ SetBus(b)
        /\ sent_log' = [a \in Agents |-> sent_log[a] \o Appended(Bus, b, a)]
    /\ UNCHANGED <<clockVars, recv_log, last_call, monVars, notifVars, triageVars,
                   historical_incidents, analysis_log>>

\* each stage's trigger applied to the request the stage before sent, and
\* the notification handler called with the requests that result
NextWorkflow ==
    \/ \E e \in Endpoints : TriggerTriageWorkflow(e)
    \/ \E i \in 1..Len(sent_log["triage"]) : TriggerAnalysisWorkflow(sent_log["triage"][i])
    \/ \E i \in 1..Len(sent_log["analysis"]) :
          TriggerNotificationWorkflow(sent_log["analysis"][i])
    \/ \E i \in 1..Len(sent_log["notification"]) :
          HandleNotification(sent_log["notification"][i], RangeOf(delivery_services))
    \/ NotificationTick(1)

SpecWorkflow == Init /\ [][NextWorkflow]_vars

\* the endpoints of the incidents the monitor opened under this id
OpenedFor(incident_id) ==
    {q.data.endpoint_name :
        q \in {r \in RequestsTo("triage", "triage_request") :
                   r.data.incident_id = incident_id}}

=============================================================================
